---- MODULE Spec2Model ----
(***************************************************************************)
(* Verification model of the datacert streaming profiler (src/wasm/src).   *)
(*                                                                         *)
(* Text is modelled as sequences of one-character strings, so that         *)
(* trimming, splitting and scanning are computed as the code computes      *)
(* them.  Each component has its own specification (SpecParsers, ...); the *)
(* variables of the other components stay at their initial values.         *)
(***************************************************************************)
EXTENDS Integers, Sequences, FiniteSets, TLC

VARIABLES
    csv,          \* CsvParser fields
    csv_input,    \* the byte stream of the session
    csv_fed,      \* number of bytes of csv_input handed to parse_chunk so far
    csv_out,      \* every row emitted so far, in order
    csv_res,      \* the ParseResult returned by the last call
    csv_pc        \* "open" until flush, then "flushed", "reflushed"; "idle" in other sessions

csvVars == <<csv, csv_input, csv_fed, csv_out, csv_res, csv_pc>>

VARIABLES
    js,           \* JsonParser fields
    js_input,     \* the byte stream of the session
    js_fed,       \* number of bytes of js_input handed to parse_chunk so far
    js_out,       \* every row emitted so far, in order
    js_res,       \* the JsonParseResult returned by the last call
    js_pc,        \* "open" until flush, then "flushed", "reflushed"; "idle" in other sessions
    js_closed,    \* TRUE once the top-level closing ] has been consumed
    js_first,     \* the first non-empty headers list a result returned
    js_src        \* how js_input was composed: framing, records, tail, declared,
                  \* and the configuration of the parser

jsVars == <<js, js_input, js_fed, js_out, js_res, js_pc, js_closed, js_first, js_src>>

VARIABLES
    col,          \* one ColumnProfile
    col_cells,    \* the cells fed to it, in order
    col_pc        \* "open" until finalize, then "finalized"; "idle" elsewhere

colVars == <<col, col_cells, col_pc>>

VARIABLES
    prof,         \* one Profiler
    prof_rows,    \* the rows it received, in order
    prof_pc       \* "open" until finalize, then "finalized"; "idle" elsewhere

profVars == <<prof, prof_rows, prof_pc>>

VARIABLES
    cat,          \* one CategoricalAccumulator
    cat_vals,     \* the values fed to it, in order
    cat_stats,    \* what finalize returned, None before
    cat_pc        \* "open" until finalize, then "finalized"; "idle" elsewhere

catVars == <<cat, cat_vals, cat_stats, cat_pc>>

VARIABLES
    twin_a,       \* the Profiler of one session
    twin_b,       \* the Profiler of another session fed the same rows
    twin_rows,    \* the rows both received, in order
    twin_res,     \* the two results of finalize, None before
    twin_pc       \* "open" until finalize, then "finalized"; "idle" elsewhere

twinVars == <<twin_a, twin_b, twin_rows, twin_res, twin_pc>>

VARIABLES
    long,         \* one ColumnProfile of a long column
    long_fill,    \* what its first batch held: "numbers" or "missing"; "none" before
    long_base,    \* the ColumnProfile as it was behind the first batch
    long_cells,   \* the cells fed to it after the first batch, in order
    long_pc       \* "new" until the first batch, then "open"; "idle" elsewhere

longVars == <<long, long_fill, long_base, long_cells, long_pc>>

VARIABLES
    cor,          \* one CorrelationAccumulator
    cor_rows,     \* the rows it received, in order
    cor_res,      \* the matrix finalize returned, None before
    cor_pc        \* "open" until finalize, then "finalized"; "idle" elsewhere

corVars == <<cor, cor_rows, cor_res, cor_pc>>

VARIABLES
    uni_in,       \* the arguments of one call of calculate_uniqueness
    uni_out       \* what the call returned, None before

uniVars == <<uni_in, uni_out>>

VARIABLES
    pii,          \* one ColumnProfile of a named column
    pii_cells,    \* the cells fed to it, in order
    pii_pc        \* "open" until finalize, then "finalized"; "idle" elsewhere

piiVars == <<pii, pii_cells, pii_pc>>

VARIABLES
    det_in,       \* the bytes handed to auto_detect_delimiter
    det_out       \* the delimiter it returned, None before

detVars == <<det_in, det_out>>

VARIABLES
    blk_in,       \* the format of a file and the record results of its reader
    blk_out       \* what parse_and_profile returned, None before

blkVars == <<blk_in, blk_out>>

VARIABLES
    ses_profiler, \* Option<Profiler> of an ingestion session
    ses_result    \* what finalize returned, None before

sesVars == <<ses_profiler, ses_result>>

VARIABLES
    pd_in,        \* the arguments of one call of detect_pii_pattern_with_column_name
    pd_out        \* what the call returned, None before

pdVars == <<pd_in, pd_out>>

VARIABLES
    rsv,          \* one HistogramAccumulator
    rsv_bits      \* the width of usize in the build: 32 (wasm32) or 64

rsvVars == <<rsv, rsv_bits>>

VARIABLES
    fl,           \* one JsonParser handed records one by one
    fl_recs,      \* the texts of the records it was handed, in order
    fl_rows       \* the rows it made of them, in order

flVars == <<fl, fl_recs, fl_rows>>

VARIABLES
    rf,           \* the Profiler of a session that is finalized more than once
    rf_rows,      \* the rows it received, in order
    rf_orders,    \* the iteration orders of its categorical maps, None while unread
    rf_reports    \* what its calls of finalize returned, in order

rfVars == <<rf, rf_rows, rf_orders, rf_reports>>

VARIABLES
    ex_col,       \* the ColumnProfile of a column that is exported
    ex_pc,        \* "open" while it is fed, then "finalized"; "idle" in other sessions
    ex_out        \* the ExportColumn made of it, None before

exVars == <<ex_col, ex_pc, ex_out>>

vars == <<csvVars, jsVars, colVars, profVars, catVars, twinVars, longVars, corVars,
          uniVars, piiVars, detVars, blkVars, sesVars, pdVars, rsvVars, flVars, rfVars, exVars>>

-----------------------------------------------------------------------------
(* Generic helpers *)

BoundedSeq(S, n) == UNION {[1..k -> S] : k \in 0..n}

RECURSIVE Concat(_)
Concat(ss) == IF ss = <<>> THEN <<>> ELSE Head(ss) \o Concat(Tail(ss))

\* 0 when absent
RECURSIVE LastIndexOf(_, _)
LastIndexOf(s, c) ==
    IF s = <<>> THEN 0
    ELSE IF s[Len(s)] = c THEN Len(s)
    ELSE LastIndexOf(SubSeq(s, 1, Len(s) - 1), c)

-----------------------------------------------------------------------------
(* Bounds *)

MaxCsvLen == 5
MaxJsonRecords == 2
MaxCells == 3
MaxRows == 3
MaxBatch == 2
MaxUniqueModel == 2
MaxCatUpdates == 4
MaxPairs == 2
MaxCount == 5
MaxPiiCells == 4
MaxLines == 3
MaxRecords == 3
MaxKeys == 1
MaxSamples == 2
MaxObserved == 12400
MaxFlattened == 2

-----------------------------------------------------------------------------
(* The csv crate reader, as configured by ReaderBuilder in csv.rs:         *)
(* delimiter as given, quote '"' with doubled-quote escaping, terminator   *)
(* any of \r, \n, \r\n, flexible(false).                                   *)

CsvQuote == "\""

CsvIsTerm(c) == c \in {"\n", "\r"}

CsvAfterTerm(c) == IF c = "\r" THEN "CRLF" ELSE "StartRecord"

\* The record splitter: the sequence of records (each a sequence of fields).
RECURSIVE CsvScan(_, _, _, _, _, _, _)
CsvScan(data, delim, i, st, field, rec, out) ==
    IF i > Len(data)
    THEN IF st \in {"StartRecord", "CRLF"} THEN out
         ELSE Append(out, Append(rec, field))
    ELSE
    LET c == data[i]
        closed == Append(rec, field)
    IN  CASE st = "CRLF" ->
               IF c = "\n"
               THEN CsvScan(data, delim, i + 1, "StartRecord", <<>>, <<>>, out)
               ELSE CsvScan(data, delim, i, "StartRecord", <<>>, <<>>, out)
          [] st = "StartRecord" ->
               IF CsvIsTerm(c)
               THEN CsvScan(data, delim, i + 1, "StartRecord", <<>>, <<>>, out)
               ELSE CsvScan(data, delim, i, "StartField", <<>>, <<>>, out)
          [] st = "StartField" ->
               IF c = CsvQuote
               THEN CsvScan(data, delim, i + 1, "InQuotedField", <<>>, rec, out)
               ELSE IF c = delim
               THEN CsvScan(data, delim, i + 1, "StartField", <<>>, closed, out)
               ELSE IF CsvIsTerm(c)
               THEN CsvScan(data, delim, i + 1, CsvAfterTerm(c), <<>>, <<>>,
                            Append(out, closed))
               ELSE CsvScan(data, delim, i + 1, "InField", <<c>>, rec, out)
          [] st = "InField" ->
               IF c = delim
               THEN CsvScan(data, delim, i + 1, "StartField", <<>>, closed, out)
               ELSE IF CsvIsTerm(c)
               THEN CsvScan(data, delim, i + 1, CsvAfterTerm(c), <<>>, <<>>,
                            Append(out, closed))
               ELSE CsvScan(data, delim, i + 1, "InField", Append(field, c), rec, out)
          [] st = "InQuotedField" ->
               IF c = CsvQuote
               THEN CsvScan(data, delim, i + 1, "InDoubleEscapedQuote", field, rec, out)
               ELSE CsvScan(data, delim, i + 1, "InQuotedField", Append(field, c), rec, out)
          [] st = "InDoubleEscapedQuote" ->
               IF c = CsvQuote
               THEN CsvScan(data, delim, i + 1, "InQuotedField", Append(field, c), rec, out)
               ELSE IF c = delim
               THEN CsvScan(data, delim, i + 1, "StartField", <<>>, closed, out)
               ELSE IF CsvIsTerm(c)
               THEN CsvScan(data, delim, i + 1, CsvAfterTerm(c), <<>>, <<>>,
                            Append(out, closed))
               ELSE CsvScan(data, delim, i + 1, "InField", Append(field, c), rec, out)

CsvRecords(data, delim) == CsvScan(data, delim, 1, "StartRecord", <<>>, <<>>, <<>>)

\* flexible(false): the first record the reader reads (the header record
\* included) fixes the field count; a later record of another length is
\* returned as Err(UnequalLengths).
CsvRecordOk(rec, first) == Len(rec) = Len(first)

\* rdr.headers() and then rdr.records(): the header record (an empty record
\* when the input holds none) and the results, each Ok(record) or Err.
CsvReader(data, delim, has_headers) ==
    LET recs == CsvRecords(data, delim)
        body == IF has_headers /\ recs # <<>> THEN Tail(recs) ELSE recs
    IN  [headers |-> IF recs = <<>> THEN <<>> ELSE recs[1],
         results |-> [k \in 1..Len(body) |->
                        [ok |-> CsvRecordOk(body[k], recs[1]), rec |-> body[k]]]]

-----------------------------------------------------------------------------
(* CsvParser (parser/csv.rs) *)

CsvParserNew(has_headers) ==
    [delimiter      |-> ",",
     has_headers    |-> has_headers,
     header_set     |-> FALSE,      \* header_data.is_some()
     header_data    |-> <<>>,
     malformed_count |-> 0,
     total_rows     |-> 0,
     remainder      |-> <<>>]

RECURSIVE CsvOkRows(_)
CsvOkRows(results) ==
    IF results = <<>> THEN <<>>
    ELSE IF Head(results).ok
         THEN <<Head(results).rec>> \o CsvOkRows(Tail(results))
         ELSE CsvOkRows(Tail(results))

CsvErrCount(results) == Cardinality({k \in 1..Len(results) : ~results[k].ok})

CsvResult(p, rows) ==
    [headers         |-> p.header_data,
     rows            |-> rows,
     malformed_count |-> p.malformed_count,
     total_rows      |-> p.total_rows]

\* mutant: total_rows counts the Ok results only
CsvCountOk(p, results) ==
    [p EXCEPT !.total_rows = @ + Len(results) - CsvErrCount(results),
              !.malformed_count = @ + CsvErrCount(results)]

\* The for-loop over rdr.records(): total_rows counts every result,
\* malformed_count the Err ones.
CsvCount(p, results) ==
    [p EXCEPT !.total_rows = @ + Len(results),
              !.malformed_count = @ + CsvErrCount(results)]

CsvSplitAt(data) == LastIndexOf(data, "\n")

CsvReturn(p, rows) == [p |-> p, res |-> CsvResult(p, rows)]

\* The body of `if !to_parse.is_empty()`, then the remainder is replaced.
CsvRead(p, rdr, want_hdr, next_rem) ==
    CsvReturn([CsvCount(p, rdr.results) EXCEPT
                  !.header_set = @ \/ want_hdr,
                  !.header_data = IF want_hdr THEN rdr.headers ELSE @,
                  !.remainder = next_rem],
              CsvOkRows(rdr.results))

CsvSplit(p, to_parse, next_rem, want_hdr) ==
    IF to_parse # <<>>
    THEN CsvRead(p, CsvReader(to_parse, p.delimiter, want_hdr), want_hdr, next_rem)
    ELSE CsvReturn([p EXCEPT !.remainder = next_rem], <<>>)

CsvParseData(p, data, pos) ==
    CsvSplit(p, SubSeq(data, 1, pos), SubSeq(data, pos + 1, Len(data)),
             p.has_headers /\ ~p.header_set)

CsvSpliced(p, data) == CsvParseData(p, data, CsvSplitAt(data))

CsvParseChunk(p, chunk) == CsvSpliced(p, p.remainder \o chunk)

\* The flush that forgets `self.remainder.clear()`.
CsvFlushReadKeeping(p, rdr) ==
    CsvReturn(CsvCount(p, rdr.results), CsvOkRows(rdr.results))

CsvFlushRead(p, rdr) ==
    CsvReturn([CsvCount(p, rdr.results) EXCEPT !.remainder = <<>>],
              CsvOkRows(rdr.results))

CsvFlush(p) ==
    IF p.remainder # <<>>
    THEN CsvFlushRead(p, CsvReader(p.remainder, p.delimiter, FALSE))
    ELSE CsvReturn(p, <<>>)

-----------------------------------------------------------------------------
(* Text helpers shared by the JSON parser and the column profile.          *)

\* char::is_whitespace on the characters of the model
IsWhitespace(c) == c \in {" ", "\n", "\t", "\r"}

RECURSIVE TrimStart(_)
TrimStart(s) ==
    IF s # <<>> /\ IsWhitespace(Head(s)) THEN TrimStart(Tail(s)) ELSE s

RECURSIVE TrimEnd(_)
TrimEnd(s) ==
    IF s # <<>> /\ IsWhitespace(s[Len(s)])
    THEN TrimEnd(SubSeq(s, 1, Len(s) - 1)) ELSE s

Trim(s) == TrimEnd(TrimStart(s))

StartsWith(s, c) == s # <<>> /\ Head(s) = c

\* 0 when absent
RECURSIVE IndexFrom(_, _, _)
IndexFrom(s, c, i) ==
    IF i > Len(s) THEN 0 ELSE IF s[i] = c THEN i ELSE IndexFrom(s, c, i + 1)

Find(s, c) == IndexFrom(s, c, 1)

Drop(s, n) == SubSeq(s, n + 1, Len(s))

-----------------------------------------------------------------------------
(* String::from_utf8_lossy over the bytes of the model: every byte is an   *)
(* ASCII character except the two bytes "C3" "A9" of one two-byte          *)
(* character; a lead byte without its continuation byte, or a              *)
(* continuation byte alone, decodes to the replacement character.          *)

Utf8Lead == "C3"
Utf8Cont == "A9"
Utf8Char == "U+00E9"
Utf8Replacement == "U+FFFD"

RECURSIVE FromUtf8Lossy(_)
FromUtf8Lossy(bytes) ==
    IF bytes = <<>> THEN <<>>
    ELSE IF Head(bytes) = Utf8Lead
    THEN IF Len(bytes) >= 2 /\ bytes[2] = Utf8Cont
         THEN <<Utf8Char>> \o FromUtf8Lossy(Drop(bytes, 2))
         ELSE <<Utf8Replacement>> \o FromUtf8Lossy(Tail(bytes))
    ELSE IF Head(bytes) = Utf8Cont
    THEN <<Utf8Replacement>> \o FromUtf8Lossy(Tail(bytes))
    ELSE <<Head(bytes)>> \o FromUtf8Lossy(Tail(bytes))

-----------------------------------------------------------------------------
(* serde_json::Value and serde_json::from_str::<Value>, on the characters  *)
(* of the model (digits without sign, fraction or exponent; the literals   *)
(* true, false, null; strings with the one-character escapes).             *)

JNull == [t |-> "null", s |-> <<>>, kv |-> <<>>, items |-> <<>>]
JBool(text) == [t |-> "bool", s |-> text, kv |-> <<>>, items |-> <<>>]
JNum(text) == [t |-> "num", s |-> text, kv |-> <<>>, items |-> <<>>]
JStr(text) == [t |-> "str", s |-> text, kv |-> <<>>, items |-> <<>>]
JArr(items) == [t |-> "arr", s |-> <<>>, kv |-> <<>>, items |-> items]
JObj(kv) == [t |-> "obj", s |-> <<>>, kv |-> kv, items |-> <<>>]

SerdeFail == [ok |-> FALSE, val |-> JNull, next |-> 0]
SerdeOk(v, n) == [ok |-> TRUE, val |-> v, next |-> n]

SerdeWs == {" ", "\n", "\t", "\r"}
Digits == {"0", "1", "2", "3", "4", "5", "6", "7", "8", "9"}

RECURSIVE SerdeSkipWs(_, _)
SerdeSkipWs(s, i) ==
    IF i <= Len(s) /\ s[i] \in SerdeWs THEN SerdeSkipWs(s, i + 1) ELSE i

\* Byte order of the characters that occur in keys (Map is a BTreeMap).
CharRank(c) ==
    CASE c = " " -> 1 [] c = "\"" -> 2 [] c = "," -> 3 [] c = "." -> 4
      [] c = "0" -> 10 [] c = "1" -> 11 [] c = "2" -> 12 [] c = "3" -> 13
      [] c = ":" -> 20 [] c = "[" -> 30 [] c = "\\" -> 31 [] c = "]" -> 32
      [] c = "a" -> 40 [] c = "b" -> 41 [] c = "c" -> 42 [] c = "v" -> 50
      [] c = "{" -> 60 [] c = "}" -> 61
      [] c = Utf8Char -> 70 [] c = Utf8Replacement -> 71
      [] OTHER -> 45

RECURSIVE KeyLess(_, _)
KeyLess(a, b) ==
    IF b = <<>> THEN FALSE
    ELSE IF a = <<>> THEN TRUE
    ELSE IF CharRank(Head(a)) # CharRank(Head(b))
         THEN CharRank(Head(a)) < CharRank(Head(b))
         ELSE KeyLess(Tail(a), Tail(b))

\* Map::insert: a repeated key keeps its place and takes the new value.
RECURSIVE MapInsert(_, _, _)
MapInsert(kv, k, v) ==
    IF kv = <<>> THEN <<[k |-> k, v |-> v]>>
    ELSE IF Head(kv).k = k THEN <<[k |-> k, v |-> v]>> \o Tail(kv)
    ELSE IF KeyLess(k, Head(kv).k) THEN <<[k |-> k, v |-> v]>> \o kv
    ELSE <<Head(kv)>> \o MapInsert(Tail(kv), k, v)

SerdeEscape(c) ==
    CASE c = "\"" -> "\"" [] c = "\\" -> "\\" [] c = "/" -> "/"
      [] c = "n" -> "\n" [] c = "t" -> "\t" [] c = "r" -> "\r"
      [] c = "b" -> "U+0008" [] c = "f" -> "\f"
      [] OTHER -> "invalid"

\* The text of a string, from the character after its opening quote.
RECURSIVE SerdeString(_, _, _)
SerdeString(s, i, acc) ==
    IF i > Len(s) THEN SerdeFail
    ELSE IF s[i] = "\"" THEN SerdeOk(acc, i + 1)
    ELSE IF s[i] = "\\"
    THEN IF i + 1 > Len(s) \/ SerdeEscape(s[i + 1]) = "invalid" THEN SerdeFail
         ELSE SerdeString(s, i + 2, Append(acc, SerdeEscape(s[i + 1])))
    ELSE IF s[i] \in {"\n", "\t", "\r"} THEN SerdeFail
    ELSE SerdeString(s, i + 1, Append(acc, s[i]))

RECURSIVE SerdeDigits(_, _)
SerdeDigits(s, i) ==
    IF i <= Len(s) /\ s[i] \in Digits THEN SerdeDigits(s, i + 1) ELSE i

SerdeNumber(s, i) ==
    IF s[i] = "0"
    THEN IF i + 1 <= Len(s) /\ s[i + 1] \in Digits THEN SerdeFail
         ELSE SerdeOk(JNum(<<"0">>), i + 1)
    ELSE LET j == SerdeDigits(s, i) IN SerdeOk(JNum(SubSeq(s, i, j - 1)), j)

SerdeLiteral(s, i, word, v) ==
    IF i + Len(word) - 1 <= Len(s) /\ SubSeq(s, i, i + Len(word) - 1) = word
    THEN SerdeOk(v, i + Len(word)) ELSE SerdeFail

RECURSIVE SerdeValue(_, _)
RECURSIVE SerdeElements(_, _, _)
RECURSIVE SerdeMembers(_, _, _)

SerdeStringValue(r) == IF r.ok THEN SerdeOk(JStr(r.val), r.next) ELSE SerdeFail

\* i is the place of the first character after the whitespace
SerdeValueAt(s, i) ==
    IF i > Len(s) THEN SerdeFail
    ELSE CASE s[i] = "\"" -> SerdeStringValue(SerdeString(s, i + 1, <<>>))
           [] s[i] = "[" -> SerdeElements(s, i + 1, <<>>)
           [] s[i] = "{" -> SerdeMembers(s, i + 1, <<>>)
           [] s[i] \in Digits -> SerdeNumber(s, i)
           [] s[i] = "t" -> SerdeLiteral(s, i, <<"t", "r", "u", "e">>,
                                         JBool(<<"t", "r", "u", "e">>))
           [] s[i] = "f" -> SerdeLiteral(s, i, <<"f", "a", "l", "s", "e">>,
                                         JBool(<<"f", "a", "l", "s", "e">>))
           [] s[i] = "n" -> SerdeLiteral(s, i, <<"n", "u", "l", "l">>, JNull)
           [] OTHER -> SerdeFail

SerdeValue(s, i0) == SerdeValueAt(s, SerdeSkipWs(s, i0))

\* r is the element just read, j the place after the whitespace behind it
SerdeElementsSep(s, acc, r, j) ==
    IF ~r.ok \/ j > Len(s) THEN SerdeFail
    ELSE IF s[j] = "," THEN SerdeElements(s, j + 1, Append(acc, r.val))
    ELSE IF s[j] = "]" THEN SerdeOk(JArr(Append(acc, r.val)), j + 1)
    ELSE SerdeFail

SerdeElementsNext(s, acc, r) ==
    SerdeElementsSep(s, acc, r, IF r.ok THEN SerdeSkipWs(s, r.next) ELSE 0)

\* the elements of an array from place i on; acc = <<>> at the first one,
\* where the closing bracket may come at once
SerdeElementsAt(s, i, j, acc) ==
    IF acc = <<>> /\ j <= Len(s) /\ s[j] = "]" THEN SerdeOk(JArr(<<>>), j + 1)
    ELSE SerdeElementsNext(s, acc, SerdeValue(s, i))

SerdeElements(s, i, acc) == SerdeElementsAt(s, i, SerdeSkipWs(s, i), acc)

\* k is the key, r the value, e the place after the whitespace behind it
SerdeMembersSep(s, acc, k, r, e) ==
    IF ~r.ok \/ e > Len(s) THEN SerdeFail
    ELSE IF s[e] = "," THEN SerdeMembers(s, e + 1, MapInsert(acc, k.val, r.val))
    ELSE IF s[e] = "}" THEN SerdeOk(JObj(MapInsert(acc, k.val, r.val)), e + 1)
    ELSE SerdeFail

SerdeMembersValue(s, acc, k, r) ==
    SerdeMembersSep(s, acc, k, r, IF r.ok THEN SerdeSkipWs(s, r.next) ELSE 0)

\* c is the place after the whitespace behind the key
SerdeMembersColon(s, acc, k, c) ==
    IF ~k.ok \/ c > Len(s) THEN SerdeFail
    ELSE IF s[c] # ":" THEN SerdeFail
    ELSE SerdeMembersValue(s, acc, k, SerdeValue(s, c + 1))

SerdeMembersKey(s, acc, k) ==
    SerdeMembersColon(s, acc, k, IF k.ok THEN SerdeSkipWs(s, k.next) ELSE 0)

\* the members of an object; acc = <<>> at the first one, where the closing
\* brace may come at once
SerdeMembersAt(s, j, acc) ==
    IF j > Len(s) THEN SerdeFail
    ELSE IF acc = <<>> /\ s[j] = "}" THEN SerdeOk(JObj(<<>>), j + 1)
    ELSE IF s[j] # "\"" THEN SerdeFail
    ELSE SerdeMembersKey(s, acc, SerdeString(s, j + 1, <<>>))

SerdeMembers(s, i, acc) == SerdeMembersAt(s, SerdeSkipWs(s, i), acc)

\* from_str: one value, then nothing but whitespace.
SerdeEnd(s, r) ==
    IF r.ok THEN (IF SerdeSkipWs(s, r.next) > Len(s) THEN r ELSE SerdeFail)
    ELSE SerdeFail

SerdeFromStr(s) == SerdeEnd(s, SerdeValue(s, 1))

\* Value::to_string(): the compact serialization.
SerdeQuote(text) ==
    <<"\"">> \o Concat([k \in 1..Len(text) |->
                 IF text[k] = "\"" THEN <<"\\", "\"">>
                 ELSE IF text[k] = "\\" THEN <<"\\", "\\">>
                 ELSE IF text[k] = "\n" THEN <<"\\", "n">>
                 ELSE IF text[k] = "\t" THEN <<"\\", "t">>
                 ELSE IF text[k] = "\r" THEN <<"\\", "r">>
                 ELSE <<text[k]>>]) \o <<"\"">>

RECURSIVE SerdeToString(_)
RECURSIVE SerdeJoin(_, _)
SerdeJoin(parts, k) ==
    IF k > Len(parts) THEN <<>>
    ELSE (IF k > 1 THEN <<",">> ELSE <<>>) \o parts[k] \o SerdeJoin(parts, k + 1)

SerdeToString(v) ==
    CASE v.t = "null" -> <<"n", "u", "l", "l">>
      [] v.t = "str" -> SerdeQuote(v.s)
      [] v.t = "arr" ->
           <<"[">> \o SerdeJoin([k \in 1..Len(v.items) |-> SerdeToString(v.items[k])], 1)
                   \o <<"]">>
      [] v.t = "obj" ->
           <<"{">> \o SerdeJoin([k \in 1..Len(v.kv) |->
                          SerdeQuote(v.kv[k].k) \o <<":">> \o SerdeToString(v.kv[k].v)], 1)
                   \o <<"}">>
      [] OTHER -> v.s

DigitChars == <<"0", "1", "2", "3", "4", "5", "6", "7", "8", "9">>

RECURSIVE UsizeToString(_)
UsizeToString(n) ==
    IF n < 10 THEN <<DigitChars[n + 1]>>
    ELSE UsizeToString(n \div 10) \o <<DigitChars[(n % 10) + 1]>>

-----------------------------------------------------------------------------
(* JsonParser (parser/json.rs) *)

JsonParserConfigDefault == [max_nested_depth |-> 3, max_keys_per_object |-> 500]

JsonParserNew(config) ==
    [config          |-> config,
     format          |-> "Unknown",
     structure       |-> "Unknown",
     headers         |-> <<>>,        \* header_order[k] is the place of k in headers
     malformed_count |-> 0,
     total_rows      |-> 0,
     remainder       |-> <<>>,
     array_stats     |-> <<>>,        \* key -> ArrayFieldStats
     in_array        |-> FALSE]

\* The loop over the later lines changes nothing: a text that starts with
\* an opening brace is JsonLines either way.
auto_detect_format(data) ==
    LET trimmed == TrimStart(data)
    IN  IF StartsWith(trimmed, "[") THEN "JsonArray"
        ELSE IF StartsWith(trimmed, "{") THEN "JsonLines"
        ELSE "Unknown"

IsHeader(p, key) == \E k \in 1..Len(p.headers) : p.headers[k] = key

ensure_header(p, key) ==
    IF IsHeader(p, key) THEN p ELSE [p EXCEPT !.headers = Append(@, key)]

ArrayFieldStatsUpdate(st, length) ==
    [min_length   |-> IF st.count = 0 \/ length < st.min_length THEN length
                      ELSE st.min_length,
     max_length   |-> IF st.count = 0 \/ length > st.max_length THEN length
                      ELSE st.max_length,
     total_length |-> st.total_length + length,
     count        |-> st.count + 1]

ArrayFieldStatsDefault ==
    [min_length |-> 0, max_length |-> 0, total_length |-> 0, count |-> 0]

TrackArray(p, key, length) ==
    LET old == IF key \in DOMAIN p.array_stats THEN p.array_stats[key]
               ELSE ArrayFieldStatsDefault
    IN  [p EXCEPT !.array_stats =
            [k \in DOMAIN p.array_stats \cup {key} |->
                IF k = key THEN ArrayFieldStatsUpdate(old, length)
                ELSE p.array_stats[k]]]

update_structure(p, val) ==
    LET current == IF val.t = "obj" THEN "ArrayOfObjects"
                   ELSE IF val.t = "arr" THEN "ArrayOfArrays"
                   ELSE "ArrayOfPrimitives"
    IN  IF p.format = "JsonLines"
        THEN [p EXCEPT !.structure = IF val.t = "obj" THEN "NewlineDelimitedObjects"
                                     ELSE "Unknown"]
        ELSE IF p.structure = "Unknown" THEN [p EXCEPT !.structure = current]
        ELSE IF p.structure \in {"ArrayOfObjects", "ArrayOfPrimitives", "ArrayOfArrays"}
                /\ current # p.structure
        THEN [p EXCEPT !.structure = "MixedArray"]
        ELSE p

\* output.insert(key, cell)
FlatInsert(out, key, cell) ==
    [k \in DOMAIN out \cup {key} |-> IF k = key THEN cell ELSE out[k]]

ArrayMarker(n) ==
    <<"[", "a", "r", "r", "a", "y", ":">> \o UsizeToString(n) \o <<"]", "\n">>

\* st = [p, out]: the parser and the flat_values map under construction.
FlatLeaf(st, full_key, cell) ==
    [p |-> ensure_header(st.p, full_key), out |-> FlatInsert(st.out, full_key, cell)]

FlatArray(st, full_key, length) ==
    [p   |-> ensure_header(TrackArray(st.p, full_key, length), full_key),
     out |-> FlatInsert(st.out, full_key, ArrayMarker(length))]

FullKey(prefix, key) == IF prefix = <<>> THEN key ELSE prefix \o <<".">> \o key

RECURSIVE flatten_recursive(_, _, _, _)
RECURSIVE FlattenEntries(_, _, _, _, _)

\* mutant: an object at the depth cap is expanded as well
FlattenEntryDeeper(st, full_key, value, depth) ==
    IF Len(st.p.headers) >= st.p.config.max_keys_per_object /\ ~IsHeader(st.p, full_key)
    THEN st
    ELSE CASE value.t = "obj" /\ depth <= st.p.config.max_nested_depth ->
                flatten_recursive(st, value.kv, full_key, depth + 1)
           [] value.t = "arr" -> FlatArray(st, full_key, Len(value.items))
           [] value.t = "null" -> FlatLeaf(st, full_key, <<>>)
           [] value.t = "obj" -> FlatLeaf(st, full_key, SerdeToString(value))
           [] OTHER -> FlatLeaf(st, full_key, value.s)

\* One entry of the loop over obj.
FlattenEntry(st, full_key, value, depth) ==
    IF Len(st.p.headers) >= st.p.config.max_keys_per_object /\ ~IsHeader(st.p, full_key)
    THEN st
    ELSE CASE value.t = "obj" /\ depth < st.p.config.max_nested_depth ->
                flatten_recursive(st, value.kv, full_key, depth + 1)
           [] value.t = "arr" -> FlatArray(st, full_key, Len(value.items))
           [] value.t = "null" -> FlatLeaf(st, full_key, <<>>)
           [] value.t = "obj" -> FlatLeaf(st, full_key, SerdeToString(value))
           [] OTHER -> FlatLeaf(st, full_key, value.s)

FlattenEntries(st, kv, k, prefix, depth) ==
    IF k > Len(kv) THEN st
    ELSE FlattenEntries(FlattenEntry(st, FullKey(prefix, kv[k].k), kv[k].v, depth),
                        kv, k + 1, prefix, depth)

flatten_recursive(st, kv, prefix, depth) ==
    IF depth > st.p.config.max_nested_depth THEN st
    ELSE FlattenEntries(st, kv, 1, prefix, depth)

RowOf(p, out) ==
    [i \in 1..Len(p.headers) |->
        IF p.headers[i] \in DOMAIN out THEN out[p.headers[i]] ELSE <<>>]

FlatRow(st) == [p |-> st.p, row |-> RowOf(st.p, st.out)]

flatten_object(p, kv, prefix, depth) ==
    FlatRow(flatten_recursive([p |-> p, out |-> <<>>], kv, prefix, depth))

ValueKey == <<"v", "a", "l", "u", "e">>

ValueCell(val) ==
    IF val.t = "str" THEN val.s
    ELSE IF val.t = "null" THEN <<>>
    ELSE SerdeToString(val)

flatten_value(p, val) ==
    IF val.t = "obj" THEN flatten_object(p, val.kv, <<>>, 0)
    ELSE FlatRow([p |-> ensure_header(p, ValueKey),
                  out |-> FlatInsert(<<>>, ValueKey, ValueCell(val))])

FnvsNone == [found |-> FALSE, pos |-> 0, is_end |-> FALSE]

\* The scan of find_next_value_separator from character i on.
RECURSIVE FnvsScan(_, _, _, _, _, _)
FnvsScan(s, i, depth_obj, depth_arr, in_string, escape_next) ==
    IF i > Len(s) THEN FnvsNone
    ELSE
    LET c == s[i]
    IN  IF escape_next THEN FnvsScan(s, i + 1, depth_obj, depth_arr, in_string, FALSE)
        ELSE IF in_string
        THEN IF c = "\\" THEN FnvsScan(s, i + 1, depth_obj, depth_arr, TRUE, TRUE)
             ELSE IF c = "\"" THEN FnvsScan(s, i + 1, depth_obj, depth_arr, FALSE, FALSE)
             ELSE FnvsScan(s, i + 1, depth_obj, depth_arr, TRUE, FALSE)
        ELSE CASE c = "\"" -> FnvsScan(s, i + 1, depth_obj, depth_arr, TRUE, FALSE)
               [] c = "{" -> FnvsScan(s, i + 1, depth_obj + 1, depth_arr, FALSE, FALSE)
               [] c = "}" -> FnvsScan(s, i + 1, depth_obj - 1, depth_arr, FALSE, FALSE)
               [] c = "[" -> FnvsScan(s, i + 1, depth_obj, depth_arr + 1, FALSE, FALSE)
               [] c = "]" ->
                    IF depth_arr = 0 /\ depth_obj = 0
                    THEN [found |-> TRUE, pos |-> i, is_end |-> TRUE]
                    ELSE FnvsScan(s, i + 1, depth_obj,
                                  IF depth_arr > 0 THEN depth_arr - 1 ELSE depth_arr,
                                  FALSE, FALSE)
               [] c = "," ->
                    IF depth_arr = 0 /\ depth_obj = 0
                    THEN [found |-> TRUE, pos |-> i, is_end |-> FALSE]
                    ELSE FnvsScan(s, i + 1, depth_obj, depth_arr, FALSE, FALSE)
               [] OTHER -> FnvsScan(s, i + 1, depth_obj, depth_arr, FALSE, FALSE)

\* pos is the 1-based place of the separator: end_pos + 1.
find_next_value_separator(s) == FnvsScan(s, 1, 0, 0, FALSE, FALSE)

\* acc = [p, rows, closed]: the parser, the rows of this call, and whether
\* the closing ] was consumed in it.
PushRow(acc, f) ==
    [acc EXCEPT !.p = [f.p EXCEPT !.total_rows = @ + 1], !.rows = Append(@, f.row)]

\* The match on serde_json::from_str: a row and total_rows + 1, or
\* malformed_count + 1.
ParsedItem(acc, r) ==
    IF r.ok THEN PushRow(acc, flatten_value(update_structure(acc.p, r.val), r.val))
    ELSE [acc EXCEPT !.p.malformed_count = @ + 1]

ParseItem(acc, text) == ParsedItem(acc, SerdeFromStr(text))

RECURSIVE JsonArrayLoop(_)

\* Advance the remainder past the item and go round the loop again.
JsonArrayAdvance(acc, advance, rem) ==
    JsonArrayLoop([acc EXCEPT !.p.remainder = Drop(rem, advance)])

\* actual_data starts at effective_start (0-based) in the remainder.
JsonArrayItem(acc, actual_data, effective_start, sep) ==
    IF ~sep.found THEN acc
    ELSE JsonArrayAdvance(ParseItem(acc, SubSeq(actual_data, 1, sep.pos - 1)),
                          effective_start + sep.pos - 1, acc.p.remainder)

JsonArrayData(acc, actual_data, effective_start) ==
    JsonArrayItem(acc, actual_data, effective_start,
                  find_next_value_separator(actual_data))

\* sub is the text behind a leading comma and the whitespace after it
JsonArrayComma(acc, trimmed, start_idx, sub) ==
    IF StartsWith(trimmed, ",")
    THEN JsonArrayData(acc, sub, start_idx + (Len(trimmed) - Len(sub)))
    ELSE JsonArrayData(acc, trimmed, start_idx)

JsonArrayStep(acc, trimmed, start_idx) ==
    IF trimmed = <<>> THEN acc
    ELSE IF StartsWith(trimmed, "]")
    THEN [acc EXCEPT !.p.remainder = Drop(@, start_idx + 1),
                     !.p.in_array = FALSE,
                     !.closed = TRUE]
    ELSE JsonArrayComma(acc, trimmed, start_idx, TrimStart(Tail(trimmed)))

JsonArrayTrimmed(acc, trimmed) ==
    JsonArrayStep(acc, trimmed, Len(acc.p.remainder) - Len(trimmed))

\* The loop of parse_json_array_chunk.
JsonArrayLoop(acc) == JsonArrayTrimmed(acc, TrimStart(acc.p.remainder))

JsonResult(p, rows) ==
    [headers         |-> p.headers,
     rows            |-> rows,
     malformed_count |-> p.malformed_count,
     total_rows      |-> p.total_rows,
     format          |-> p.format,
     structure       |-> p.structure,
     array_stats     |-> p.array_stats]

JsonAcc(p) == [p |-> p, rows |-> <<>>, closed |-> FALSE]

JsonArrayStart(p, start_pos) ==
    IF p.in_array THEN JsonArrayLoop(JsonAcc(p))
    ELSE IF start_pos = 0 THEN JsonAcc(p)
    ELSE JsonArrayLoop(JsonAcc([p EXCEPT !.remainder = Drop(@, start_pos),
                                         !.in_array = TRUE]))

parse_json_array_chunk(p) == JsonArrayStart(p, Find(p.remainder, "["))

RECURSIVE JsonlLoop(_)

JsonlLine(acc, line, newline_pos, rem) ==
    JsonlLoop([(IF line # <<>> THEN ParseItem(acc, line) ELSE acc)
                  EXCEPT !.p.remainder = Drop(rem, newline_pos)])

JsonlAt(acc, newline_pos) ==
    IF newline_pos = 0 THEN acc
    ELSE JsonlLine(acc, Trim(SubSeq(acc.p.remainder, 1, newline_pos - 1)),
                   newline_pos, acc.p.remainder)

\* The loop of parse_jsonl_chunk over the complete lines.
JsonlLoop(acc) == JsonlAt(acc, Find(acc.p.remainder, "\n"))

parse_jsonl_chunk(p) ==
    JsonlLoop(JsonAcc(IF p.structure = "Unknown"
                      THEN [p EXCEPT !.structure = "NewlineDelimitedObjects"]
                      ELSE p))

\* res is the returned JsonParseResult; closed tells that this call consumed
\* the closing ] of the container.
JsonReturn(a) == [p |-> a.p, res |-> JsonResult(a.p, a.rows), closed |-> a.closed]

JsonDispatch(p) ==
    CASE p.format = "JsonArray" -> JsonReturn(parse_json_array_chunk(p))
      [] p.format = "JsonLines" -> JsonReturn(parse_jsonl_chunk(p))
      [] OTHER -> JsonReturn(JsonAcc(p))

JsonDetect(p) ==
    IF p.format = "Unknown"
    THEN JsonDispatch([p EXCEPT !.format = auto_detect_format(p.remainder)])
    ELSE JsonDispatch(p)

JsonParseChunk(p, chunk) ==
    JsonDetect([p EXCEPT !.remainder = @ \o FromUtf8Lossy(chunk)])

JsonFlushed(a) ==
    [p |-> [a.p EXCEPT !.remainder = <<>>],
     res |-> JsonResult(a.p, a.rows),
     closed |-> FALSE]

JsonFlushRemaining(p, remaining) ==
    IF p.format = "JsonLines" /\ remaining # <<>>
    THEN JsonFlushed(ParseItem(JsonAcc(p), remaining))
    ELSE JsonFlushed(JsonAcc(p))

JsonFlush(p) == JsonFlushRemaining(p, Trim(p.remainder))

-----------------------------------------------------------------------------
(* Values shared by the statistics: Option, lower-casing, byte length and  *)
(* the number parsers of the standard library.                             *)

None == <<>>
Some(x) == <<x>>
IsSome(o) == Len(o) > 0

UpperLetters ==
    <<"A", "B", "C", "D", "E", "F", "G", "H", "I", "J", "K", "L", "M",
      "N", "O", "P", "Q", "R", "S", "T", "U", "V", "W", "X", "Y", "Z">>

LowerLetters ==
    <<"a", "b", "c", "d", "e", "f", "g", "h", "i", "j", "k", "l", "m",
      "n", "o", "p", "q", "r", "s", "t", "u", "v", "w", "x", "y", "z">>

ToLowerChar(c) ==
    IF \E i \in DOMAIN UpperLetters : UpperLetters[i] = c
    THEN LowerLetters[CHOOSE i \in DOMAIN UpperLetters : UpperLetters[i] = c]
    ELSE c

ToLowercase(s) == [i \in 1..Len(s) |-> ToLowerChar(s[i])]

\* str::len counts bytes: the two-byte character and the replacement
\* character are longer than one.
Utf8Width(c) ==
    IF c = Utf8Char THEN 2 ELSE IF c = Utf8Replacement THEN 3 ELSE 1

RECURSIVE ByteLen(_)
ByteLen(s) == IF s = <<>> THEN 0 ELSE Utf8Width(Head(s)) + ByteLen(Tail(s))

Contains(s, c) == \E i \in 1..Len(s) : s[i] = c

\* index behind the longest run of digits that starts at i
RECURSIVE DigitRun(_, _)
DigitRun(s, i) ==
    IF i <= Len(s) /\ s[i] \in Digits THEN DigitRun(s, i + 1) ELSE i

DigitValue(c) == CHOOSE d \in 0..9 : DigitChars[d + 1] = c

\* value of the digits s[a..b], 0 for an empty range
RECURSIVE DigitsValue(_, _, _)
DigitsValue(s, a, b) ==
    IF b < a THEN 0 ELSE DigitsValue(s, a, b - 1) * 10 + DigitValue(s[b])

HasSign(s) == s # <<>> /\ Head(s) \in {"+", "-"}
Unsigned(s) == IF HasSign(s) THEN Tail(s) ELSE s

\* str::parse::<i64>: an optional sign and at least one digit, nothing
\* else.  (The cells of the model are far too short to leave the i64 range.)
ParseI64Ok(s) ==
    /\ Unsigned(s) # <<>>
    /\ \A i \in 1..Len(Unsigned(s)) : Unsigned(s)[i] \in Digits

\* An f64: its kind and, when finite, the decimal value m * 10^e with m not
\* divisible by 10.  Arithmetic on these is exact decimal arithmetic; the
\* rounding of binary floating point is not represented.
F64Nan == [k |-> "nan", m |-> 0, e |-> 0]
F64Infinity == [k |-> "inf", m |-> 0, e |-> 0]
F64NegInfinity == [k |-> "-inf", m |-> 0, e |-> 0]

RECURSIVE F64Normal(_, _)
F64Normal(m, e) ==
    IF m = 0 THEN [k |-> "finite", m |-> 0, e |-> 0]
    ELSE IF m % 10 = 0 THEN F64Normal(m \div 10, e + 1)
    ELSE [k |-> "finite", m |-> m, e |-> e]

F64IsFinite(v) == v.k = "finite"

RECURSIVE Pow10(_)
Pow10(n) == IF n = 0 THEN 1 ELSE 10 * Pow10(n - 1)

MinOf(a, b) == IF a < b THEN a ELSE b

F64Scaled(v, e) == v.m * Pow10(v.e - e)

\* a < b  (false whenever a NaN is involved)
F64Lt(a, b) ==
    IF a.k = "nan" \/ b.k = "nan" THEN FALSE
    ELSE IF a.k = "inf" \/ b.k = "-inf" THEN FALSE
    ELSE IF a.k = "-inf" \/ b.k = "inf" THEN TRUE
    ELSE F64Scaled(a, MinOf(a.e, b.e)) < F64Scaled(b, MinOf(a.e, b.e))

F64Add(a, b) ==
    IF F64IsFinite(a) /\ F64IsFinite(b)
    THEN F64Normal(F64Scaled(a, MinOf(a.e, b.e)) + F64Scaled(b, MinOf(a.e, b.e)),
                   MinOf(a.e, b.e))
    ELSE IF a.k = "nan" \/ b.k = "nan" THEN F64Nan
    ELSE IF F64IsFinite(a) THEN b
    ELSE IF F64IsFinite(b) \/ a.k = b.k THEN a
    ELSE F64Nan

F64Signed(neg, v) ==
    IF ~neg THEN v
    ELSE IF v.k = "inf" THEN F64NegInfinity
    ELSE IF v.k = "finite" THEN [v EXCEPT !.m = 0 - @]
    ELSE v

ParseF64Fail == [ok |-> FALSE, val |-> F64Nan]
ParseF64Ok(v) == [ok |-> TRUE, val |-> v]

\* the exponent part that starts at i (behind the mantissa), i1 and i2 being
\* the ends of the integer and of the fraction digits
ParseF64Exp(s, i1, f1, i2, x, xneg) ==
    IF x > Len(s) \/ DigitRun(s, x) # Len(s) + 1 THEN ParseF64Fail
    ELSE ParseF64Ok(F64Normal(
             DigitsValue(s, 1, i1 - 1) * Pow10(i2 - f1) + DigitsValue(s, f1, i2 - 1),
             (IF xneg THEN 0 - DigitsValue(s, x, Len(s)) ELSE DigitsValue(s, x, Len(s)))
                 - (i2 - f1)))

ParseF64Mantissa(s, i1, f1, i2) ==
    IF (i1 - 1) + (i2 - f1) = 0 THEN ParseF64Fail
    ELSE IF i2 > Len(s)
    THEN ParseF64Ok(F64Normal(
             DigitsValue(s, 1, i1 - 1) * Pow10(i2 - f1) + DigitsValue(s, f1, i2 - 1),
             0 - (i2 - f1)))
    ELSE IF s[i2] \notin {"e", "E"} THEN ParseF64Fail
    ELSE IF i2 + 1 <= Len(s) /\ s[i2 + 1] \in {"+", "-"}
    THEN ParseF64Exp(s, i1, f1, i2, i2 + 2, s[i2 + 1] = "-")
    ELSE ParseF64Exp(s, i1, f1, i2, i2 + 1, FALSE)

ParseF64Fraction(s, i1) ==
    IF i1 <= Len(s) /\ s[i1] = "."
    THEN ParseF64Mantissa(s, i1, i1 + 1, DigitRun(s, i1 + 1))
    ELSE ParseF64Mantissa(s, i1, i1, i1)

ParseF64Number(s) == ParseF64Fraction(s, DigitRun(s, 1))

ParseF64Unsigned(s, lower) ==
    IF lower = <<"n", "a", "n">> THEN ParseF64Ok(F64Nan)
    ELSE IF lower = <<"i", "n", "f">>
            \/ lower = <<"i", "n", "f", "i", "n", "i", "t", "y">>
    THEN ParseF64Ok(F64Infinity)
    ELSE ParseF64Number(s)

ParseF64Sign(neg, r) == [ok |-> r.ok, val |-> F64Signed(neg, r.val)]

\* str::parse::<f64>: an optional sign, then a decimal number with optional
\* fraction and exponent, or inf / infinity / nan in any letter case.
ParseF64(s) ==
    ParseF64Sign(s # <<>> /\ Head(s) = "-",
                 ParseF64Unsigned(Unsigned(s), ToLowercase(Unsigned(s))))

-----------------------------------------------------------------------------
(* NumericStats (stats/numeric.rs).  Represented: min, max, sum, count.    *)
(* The running mean and central moments and the figures derived from them  *)
(* at finalize are not represented.                                        *)

NumericStatsNew ==
    [min |-> F64Infinity, max |-> F64NegInfinity, sum |-> F64Normal(0, 0),
     count |-> 0]

NumericStatsUpdate(s, val) ==
    IF ~F64IsFinite(val) THEN s
    ELSE [s EXCEPT !.count = @ + 1,
                   !.sum = F64Add(@, val),
                   !.min = IF F64Lt(val, @) THEN val ELSE @,
                   !.max = IF F64Lt(@, val) THEN val ELSE @]

-----------------------------------------------------------------------------
(* HistogramAccumulator (stats/histogram.rs): the reservoir of samples.    *)

HistMaxSamples == 1000

HistogramAccumulatorNew(max_samples) ==
    [samples |-> <<>>, max_samples |-> max_samples, count |-> 0]

LcgMultiplier == 1103515245
LcgIncrement == 12345

\* (count * 1103515245 + 12345) as usize, for a 32-bit usize: the low 32
\* bits of the sum, as the pair of its 16-bit halves.  The sum is taken by
\* halves of the multiplier; exact for count below 46340.
LcgWrapped32(count) ==
    [hi |-> ((count * (LcgMultiplier \div 65536))
                + ((count * (LcgMultiplier % 65536) + LcgIncrement) \div 65536)) % 65536,
     lo |-> (count * (LcgMultiplier % 65536) + LcgIncrement) % 65536]

\* (hi * 65536 + lo) % count
HalvesMod(w, count) == ((w.hi % count) * (65536 % count) + w.lo) % count

\* (count * 1103515245 + 12345) as usize % count as usize: the u64 sum is
\* cut to the width of usize before the remainder is taken; a 64-bit usize
\* holds it whole
LcgIndexOn(bits, count) ==
    IF bits = 32 THEN HalvesMod(LcgWrapped32(count), count)
    ELSE LcgIncrement % count

\* the index in a build with a 64-bit usize
LcgIndex(count) == LcgIndexOn(64, count)

HistogramReplace(h, val, j) ==
    IF j < h.max_samples THEN [h EXCEPT !.samples[j + 1] = val] ELSE h

\* mutant: the value is pushed whatever the number of samples
HistogramAccumulatorUpdateUnbounded(h, val) ==
    [h EXCEPT !.count = @ + 1, !.samples = Append(@, val)]

\* HistogramAccumulator::update in a build whose usize has the given width
HistogramAccumulatorUpdateOn(bits, h, val) ==
    IF Len(h.samples) < h.max_samples
    THEN [h EXCEPT !.count = @ + 1, !.samples = Append(@, val)]
    ELSE HistogramReplace([h EXCEPT !.count = @ + 1], val, LcgIndexOn(bits, h.count + 1))

\* the columns are profiled by a build with a 64-bit usize
HistogramAccumulatorUpdate(h, val) ==
    IF Len(h.samples) < h.max_samples
    THEN [h EXCEPT !.count = @ + 1, !.samples = Append(@, val)]
    ELSE HistogramReplace([h EXCEPT !.count = @ + 1], val, LcgIndex(h.count + 1))

-----------------------------------------------------------------------------
(* CategoricalAccumulator (stats/categorical.rs) *)

CatMaxUnique == 1000

CategoricalAccumulatorNew(max_unique) ==
    [counts |-> <<>>, total_count |-> 0, max_unique |-> max_unique]

\* mutant: a new value is inserted whatever the number of keys
CategoricalAccumulatorUpdateUncapped(c, value) ==
    IF value \in DOMAIN c.counts
    THEN [c EXCEPT !.total_count = @ + 1, !.counts[value] = @ + 1]
    ELSE [c EXCEPT !.total_count = @ + 1, !.counts = (value :> 1) @@ @]

CategoricalAccumulatorUpdate(c, value) ==
    IF value \in DOMAIN c.counts
    THEN [c EXCEPT !.total_count = @ + 1, !.counts[value] = @ + 1]
    ELSE IF Cardinality(DOMAIN c.counts) < c.max_unique
    THEN [c EXCEPT !.total_count = @ + 1, !.counts = (value :> 1) @@ @]
    ELSE [c EXCEPT !.total_count = @ + 1]

TopValuesLimit == 10

\* The orders in which iterating over the counts map can yield its keys: a
\* HashMap with a randomly seeded hasher promises none.
HashOrders(c) ==
    {o \in [1..Cardinality(DOMAIN c.counts) -> DOMAIN c.counts] :
        \A i, j \in DOMAIN o : o[i] = o[j] => i = j}

\* percentage is kept as the exact quotient <<numerator, denominator>>
FreqEntry(c, value) ==
    [value |-> value, count |-> c.counts[value],
     percentage |-> <<c.counts[value] * 100, c.total_count>>]

\* sort_by is stable: e goes behind the entries that do not count less
InsertByCountDesc(sorted, e) ==
    SubSeq(sorted, 1, Cardinality({i \in 1..Len(sorted) : sorted[i].count >= e.count}))
    \o <<e>> \o
    SubSeq(sorted, Cardinality({i \in 1..Len(sorted) : sorted[i].count >= e.count}) + 1,
           Len(sorted))

RECURSIVE SortByCountDesc(_, _)
SortByCountDesc(sorted, entries) ==
    IF entries = <<>> THEN sorted
    ELSE SortByCountDesc(InsertByCountDesc(sorted, Head(entries)), Tail(entries))

Take(s, n) == SubSeq(s, 1, MinOf(n, Len(s)))

\* CategoricalAccumulator::finalize, the map iterated in the given order
CategoricalFinalize(c, order) ==
    [top_values |->
         Take(SortByCountDesc(<<>>, [i \in 1..Len(order) |-> FreqEntry(c, order[i])]),
              TopValuesLimit),
     unique_count |-> Cardinality(DOMAIN c.counts)]

-----------------------------------------------------------------------------
(* f64 arithmetic of the correlation code (stats/correlation.rs).  A value *)
(* is its kind and, when finite, the exact quotient (n / d) * 10^e in      *)
(* lowest terms with neither n nor d divisible by 10.  Represented: the    *)
(* overflow of a result to an infinity, the NaN of inf - inf, inf / inf    *)
(* and 0 * inf, underflow to zero, and the loss of an addend more than 17  *)
(* decimal orders below the other.  Not represented: the rounding of a     *)
(* finite result, the sign of zero; a magnitude of 10^309 or more counts   *)
(* as overflow (the largest f64 is about 1.8 * 10^308).                    *)

Abs(x) == IF x < 0 THEN 0 - x ELSE x

SignOf(x) == IF x < 0 THEN 0 - 1 ELSE IF x > 0 THEN 1 ELSE 0

RECURSIVE Gcd(_, _)
Gcd(a, b) == IF b = 0 THEN a ELSE Gcd(b, a % b)

RECURSIVE TrailingZeros(_)
TrailingZeros(n) == IF n # 0 /\ n % 10 = 0 THEN 1 + TrailingZeros(n \div 10) ELSE 0

FpNan == [k |-> "nan", n |-> 0, d |-> 1, e |-> 0]
FpZero == [k |-> "finite", n |-> 0, d |-> 1, e |-> 0]
FpInf(sign) == [k |-> IF sign < 0 THEN "-inf" ELSE "inf", n |-> 0, d |-> 1, e |-> 0]

\* sign * (n / d) * 10^e for n, d > 0 without a common divisor
FpStripped(sign, n, d, e) ==
    [k |-> "finite",
     n |-> sign * (n \div Pow10(TrailingZeros(n))),
     d |-> d \div Pow10(TrailingZeros(d)),
     e |-> e + TrailingZeros(n) - TrailingZeros(d)]

\* the exact value (n / d) * 10^e, d > 0
FpExact(n, d, e) ==
    IF n = 0 THEN FpZero
    ELSE FpStripped(SignOf(n), Abs(n) \div Gcd(Abs(n), d), d \div Gcd(Abs(n), d), e)

\* the largest k with 10^k * d <= n, for n >= d > 0
RECURSIVE Log10Floor(_, _)
Log10Floor(n, d) == IF n \div 10 >= d THEN 1 + Log10Floor(n \div 10, d) ELSE 0

\* the least k with 10^k * n >= d, for d >= n > 0
RECURSIVE Log10Ceil(_, _)
Log10Ceil(d, n) == IF n >= d THEN 0 ELSE 1 + Log10Ceil((d + 9) \div 10, n)

\* the decimal order of a finite value other than zero
FpOrder(v) ==
    v.e + (IF Abs(v.n) >= v.d THEN Log10Floor(Abs(v.n), v.d)
           ELSE 0 - Log10Ceil(v.d, Abs(v.n)))

\* an exact result brought into the range of f64
FpRanged(v) ==
    IF v.n = 0 THEN v
    ELSE IF FpOrder(v) > 308 THEN FpInf(v.n)
    ELSE IF FpOrder(v) < 0 - 324 THEN FpZero
    ELSE v

FpIsNan(v) == v.k = "nan"
FpIsInfinite(v) == v.k \in {"inf", "-inf"}
FpIsFinite(v) == v.k = "finite"

\* -1, 0 or 1; 0 for NaN
FpSign(v) ==
    IF v.k = "inf" THEN 1 ELSE IF v.k = "-inf" THEN 0 - 1
    ELSE IF v.k = "nan" THEN 0 ELSE SignOf(v.n)

FpNeg(v) ==
    IF v.k = "inf" THEN FpInf(0 - 1) ELSE IF v.k = "-inf" THEN FpInf(1)
    ELSE IF v.k = "nan" THEN v ELSE [v EXCEPT !.n = 0 - @]

\* the sum of two finite values neither of which is zero, at exponent m
FpAligned(a, b, m) ==
    FpExact(a.n * Pow10(a.e - m) * b.d + b.n * Pow10(b.e - m) * a.d, a.d * b.d, m)

FpAddFinite(a, b) ==
    IF a.n = 0 THEN b
    ELSE IF b.n = 0 THEN a
    ELSE IF FpOrder(a) - FpOrder(b) > 17 THEN a
    ELSE IF FpOrder(b) - FpOrder(a) > 17 THEN b
    ELSE FpRanged(FpAligned(a, b, MinOf(a.e, b.e)))

FpAdd(a, b) ==
    IF FpIsNan(a) \/ FpIsNan(b) THEN FpNan
    ELSE IF FpIsFinite(a) /\ FpIsFinite(b) THEN FpAddFinite(a, b)
    ELSE IF FpIsFinite(a) THEN b
    ELSE IF FpIsFinite(b) \/ a.k = b.k THEN a
    ELSE FpNan

FpSub(a, b) == FpAdd(a, FpNeg(b))

FpMul(a, b) ==
    IF FpIsNan(a) \/ FpIsNan(b) THEN FpNan
    ELSE IF FpIsFinite(a) /\ FpIsFinite(b)
    THEN FpRanged(FpExact(a.n * b.n, a.d * b.d, a.e + b.e))
    ELSE IF FpSign(a) * FpSign(b) = 0 THEN FpNan
    ELSE FpInf(FpSign(a) * FpSign(b))

FpDiv(a, b) ==
    IF FpIsNan(a) \/ FpIsNan(b) THEN FpNan
    ELSE IF FpIsInfinite(a) /\ FpIsInfinite(b) THEN FpNan
    ELSE IF FpIsInfinite(a) THEN FpInf(FpSign(a) * (IF FpSign(b) < 0 THEN 0 - 1 ELSE 1))
    ELSE IF FpIsInfinite(b) THEN FpZero
    ELSE IF b.n = 0 THEN (IF a.n = 0 THEN FpNan ELSE FpInf(a.n))
    ELSE FpRanged(FpExact(SignOf(b.n) * a.n * b.d, a.d * Abs(b.n), a.e - b.e))

\* v > 0.0
FpPositive(v) == FpSign(v) > 0

\* an integer as f64
FpFromInt(i) == FpExact(i, 1, 0)

\* the f64 that str::parse returned
FpFromF64(v) ==
    IF v.k = "finite" THEN FpRanged(FpExact(v.m, 1, v.e))
    ELSE [k |-> v.k, n |-> 0, d |-> 1, e |-> 0]

-----------------------------------------------------------------------------
(* quality/uniqueness.rs *)

SaturatingSub(a, b) == IF a > b THEN a - b ELSE 0

UniquenessOf(distinct_count, non_null_count) ==
    IF non_null_count = 0 THEN FpFromInt(1)
    ELSE FpDiv(FpFromInt(distinct_count), FpFromInt(non_null_count))

calculate_uniqueness(total_count, missing_count, distinct_count) ==
    UniquenessOf(distinct_count, SaturatingSub(total_count, missing_count))

-----------------------------------------------------------------------------
(* quality/mod.rs and quality/completeness.rs.  The id of an issue is the  *)
(* pair of the column name and the suffix formatted behind it; a message   *)
(* is the tuple of its wording and, if it has one, the number formatted    *)
(* into it.                                                                *)

ColumnQualityMetricsNew ==
    [completeness |-> FpZero, uniqueness |-> FpZero, issues |-> <<>>,
     score |-> FpFromInt(1)]

QualityIssue(column_name, suffix, message, severity) ==
    [id |-> <<column_name, suffix>>, message |-> message, severity |-> severity]

\* a < b on f64
FpLess(a, b) == FpPositive(FpSub(b, a))

Percent(v) == FpMul(v, FpFromInt(100))

calculate_completeness(total_count, missing_count) ==
    IF total_count = 0 THEN FpFromInt(1)
    ELSE FpDiv(FpFromInt(SaturatingSub(total_count, missing_count)),
               FpFromInt(total_count))

check_completeness_issues(completeness, column_name) ==
    IF FpLess(completeness, FpExact(5, 1, 0 - 1))
    THEN << QualityIssue(column_name, "_completeness_critical",
                         <<"Critical: Only {:.1}% of values are present",
                           Percent(completeness)>>, "Error") >>
    ELSE IF FpLess(completeness, FpExact(9, 1, 0 - 1))
    THEN << QualityIssue(column_name, "_completeness_warning",
                         <<"Completeness is {:.1}% (below 90% threshold)",
                           Percent(completeness)>>, "Warning") >>
    ELSE IF FpLess(completeness, FpFromInt(1))
    THEN << QualityIssue(column_name, "_completeness_info",
                         <<"Completeness is {:.1}%", Percent(completeness)>>,
                         "Info") >>
    ELSE <<>>

check_uniqueness_issues(uniqueness, column_name, inferred_type) ==
    (IF FpPositive(uniqueness) /\ ~FpLess(FpExact(2, 1, 0 - 2), uniqueness)
        /\ ~FpIsNan(uniqueness)
     THEN << QualityIssue(column_name, "_constant_column",
                          <<"Column has only one unique value (constant)">>,
                          "Warning") >>
     ELSE <<>>)
    \o
    (IF inferred_type = "String" /\ FpLess(FpExact(9, 1, 0 - 1), uniqueness)
     THEN << QualityIssue(column_name, "_high_cardinality",
                          <<"High cardinality: {:.1}% unique values (potential identifier or free text)",
                            Percent(uniqueness)>>, "Info") >>
     ELSE <<>>)

-----------------------------------------------------------------------------
(* Regex::is_match of the regex crate, on the characters of the model.  A  *)
(* pattern is a tree of character classes, word boundaries, anchors,       *)
(* concatenations, alternations and counted repetitions; RegexEnds is the  *)
(* set of positions at which a match that starts at position i can end.    *)
(* A class under (?i) holds both cases of its letters.                     *)

Letters ==
    {UpperLetters[i] : i \in 1..Len(UpperLetters)}
        \cup {LowerLetters[i] : i \in 1..Len(LowerLetters)}

WordChars == Letters \cup Digits \cup {"_"}

RegexSpace == {" ", "\t", "\n", "\r"}

Class(set) == [t |-> "class", set |-> set]
WordBoundary == [t |-> "boundary"]
StartAnchor == [t |-> "start"]
EndAnchor == [t |-> "end"]
Sequence(parts) == [t |-> "concat", parts |-> parts]
Alternation(parts) == [t |-> "alternation", parts |-> parts]
\* max < 0: no upper limit
Repeat(part, min, max) == [t |-> "repeat", part |-> part, min |-> min, max |-> max]
Optional(part) == Repeat(part, 0, 1)
Literal(c) == Class({c})

IsWordChar(s, i) == i >= 1 /\ i <= Len(s) /\ s[i] \in WordChars

RECURSIVE RegexEnds(_, _, _)
RECURSIVE ConcatEnds(_, _, _, _)
RECURSIVE RepeatEnds(_, _, _, _)

\* where the parts from the k-th on can end when they start in `from`
ConcatEnds(parts, k, s, from) ==
    IF k > Len(parts) \/ from = {} THEN from
    ELSE ConcatEnds(parts, k + 1, s,
                    UNION {RegexEnds(parts[k], s, i) : i \in from})

\* where the repetition can end when n repetitions ended in `from`
RepeatEnds(re, n, s, from) ==
    IF from = {} THEN {}
    ELSE (IF n >= re.min THEN from ELSE {})
         \cup (IF n = re.max THEN {}
               ELSE RepeatEnds(re, n + 1, s,
                               UNION {RegexEnds(re.part, s, i) : i \in from}))

RegexEnds(re, s, i) ==
    CASE re.t = "class" -> IF i <= Len(s) /\ s[i] \in re.set THEN {i + 1} ELSE {}
      [] re.t = "boundary" ->
             IF IsWordChar(s, i - 1) # IsWordChar(s, i) THEN {i} ELSE {}
      [] re.t = "start" -> IF i = 1 THEN {i} ELSE {}
      [] re.t = "end" -> IF i = Len(s) + 1 THEN {i} ELSE {}
      [] re.t = "concat" -> ConcatEnds(re.parts, 1, s, {i})
      [] re.t = "alternation" ->
             UNION {RegexEnds(re.parts[k], s, i) : k \in 1..Len(re.parts)}
      [] re.t = "repeat" -> RepeatEnds(re, 0, s, {i})

is_match(re, s) == \E i \in 1..(Len(s) + 1) : RegexEnds(re, s, i) # {}

Digit == Class(Digits)
Separator == Optional(Class({"-", "."} \cup RegexSpace))

-----------------------------------------------------------------------------
(* quality/patterns.rs *)

PiiSampleSize == 100

\* (?i)\b[A-Z0-9._%+-]+@[A-Z0-9.-]+\.[A-Z]{2,}\b
EMAIL_REGEX ==
    Sequence(<< WordBoundary,
              Repeat(Class(Letters \cup Digits \cup {".", "_", "%", "+", "-"}), 1, 0 - 1),
              Literal("@"),
              Repeat(Class(Letters \cup Digits \cup {".", "-"}), 1, 0 - 1),
              Literal("."),
              Repeat(Class(Letters), 2, 0 - 1),
              WordBoundary >>)

\* (?:\+?1[-.\s]?)?\(?\d{3}\)?[-.\s]?\d{3}[-.\s]?\d{4}
PHONE_REGEX ==
    Sequence(<< Optional(Sequence(<<Optional(Literal("+")), Literal("1"), Separator>>)),
              Optional(Literal("(")), Repeat(Digit, 3, 3), Optional(Literal(")")),
              Separator, Repeat(Digit, 3, 3), Separator, Repeat(Digit, 4, 4) >>)

\* ^\d{3}-\d{2}-\d{4}$
SSN_REGEX ==
    Sequence(<< StartAnchor, Repeat(Digit, 3, 3), Literal("-"), Repeat(Digit, 2, 2),
              Literal("-"), Repeat(Digit, 4, 4), EndAnchor >>)

\* \b\d{4}[\s-]?\d{4}[\s-]?\d{4}[\s-]?\d{4,7}\b
CREDIT_CARD_REGEX ==
    Sequence(<< WordBoundary,
              Repeat(Digit, 4, 4), Optional(Class({"-"} \cup RegexSpace)),
              Repeat(Digit, 4, 4), Optional(Class({"-"} \cup RegexSpace)),
              Repeat(Digit, 4, 4), Optional(Class({"-"} \cup RegexSpace)),
              Repeat(Digit, 4, 7), WordBoundary >>)

\* \b(?:[0-9]{1,3}\.){3}[0-9]{1,3}\b
IP_ADDRESS_REGEX ==
    Sequence(<< WordBoundary,
              Repeat(Sequence(<<Repeat(Digit, 1, 3), Literal(".")>>), 3, 3),
              Repeat(Digit, 1, 3), WordBoundary >>)

\* \b(?:19|20)\d{2}[-/](?:0[1-9]|1[0-2])[-/](?:0[1-9]|[12]\d|3[01])\b
DOB_REGEX ==
    Sequence(<< WordBoundary,
              Alternation(<< Sequence(<<Literal("1"), Literal("9")>>),
                             Sequence(<<Literal("2"), Literal("0")>>) >>),
              Repeat(Digit, 2, 2), Class({"-", "/"}),
              Alternation(<< Sequence(<<Literal("0"), Class(Digits \ {"0"})>>),
                             Sequence(<<Literal("1"), Class({"0", "1", "2"})>>) >>),
              Class({"-", "/"}),
              Alternation(<< Sequence(<<Literal("0"), Class(Digits \ {"0"})>>),
                             Sequence(<<Class({"1", "2"}), Digit>>),
                             Sequence(<<Literal("3"), Class({"0", "1"})>>) >>),
              WordBoundary >>)

\* \b\d{5}(?:-\d{4})?\b
US_POSTAL_REGEX ==
    Sequence(<< WordBoundary, Repeat(Digit, 5, 5),
              Optional(Sequence(<<Literal("-"), Repeat(Digit, 4, 4)>>)),
              WordBoundary >>)

\* (?i)\b[A-Z]\d[A-Z]\s?\d[A-Z]\d\b
CANADIAN_POSTAL_REGEX ==
    Sequence(<< WordBoundary, Class(Letters), Digit, Class(Letters),
              Optional(Class(RegexSpace)), Digit, Class(Letters), Digit,
              WordBoundary >>)

\* "Potential PII detected: {}" with as_str
PiiMessage(kind) ==
    CASE kind = "Email" -> "Potential PII detected: email"
      [] kind = "Phone" -> "Potential PII detected: phone number"
      [] kind = "Ssn" -> "Potential PII detected: SSN"
      [] kind = "CreditCard" -> "Potential PII detected: credit card"
      [] kind = "IpAddress" -> "Potential PII detected: IP address"
      [] kind = "DateOfBirth" -> "Potential PII detected: date of birth"
      [] kind = "PostalCode" -> "Potential PII detected: postal code"

\* "_pii_{}" with as_str, its spaces replaced by "_"
PiiIdSuffix(kind) ==
    CASE kind = "Email" -> "_pii_email"
      [] kind = "Phone" -> "_pii_phone_number"
      [] kind = "Ssn" -> "_pii_SSN"
      [] kind = "CreditCard" -> "_pii_credit_card"
      [] kind = "IpAddress" -> "_pii_IP_address"
      [] kind = "DateOfBirth" -> "_pii_date_of_birth"
      [] kind = "PostalCode" -> "_pii_postal_code"

PiiSeverity(kind) ==
    IF kind \in {"Ssn", "CreditCard"} THEN "Error"
    ELSE IF kind = "PostalCode" THEN "Info"
    ELSE "Warning"

\* str::contains with a string pattern
ContainsStr(s, sub) ==
    \E i \in 1..(Len(s) - Len(sub) + 1) : SubSeq(s, i, i + Len(sub) - 1) = sub

ContainsAny(s, subs) == \E sub \in subs : ContainsStr(s, sub)

NameHint(name_lower) ==
    IF ContainsAny(name_lower, {<<"e", "m", "a", "i", "l">>, <<"e", "_", "m", "a", "i", "l">>, <<"e", "-", "m", "a", "i", "l">>})
    THEN Some("Email")
    ELSE IF ContainsAny(name_lower, {<<"p", "h", "o", "n", "e">>, <<"m", "o", "b", "i", "l", "e">>, <<"c", "e", "l", "l">>, <<"t", "e", "l">>, <<"f", "a", "x">>})
    THEN Some("Phone")
    ELSE IF ContainsAny(name_lower, {<<"s", "s", "n">>, <<"s", "o", "c", "i", "a", "l", "_", "s", "e", "c", "u", "r", "i", "t", "y">>,
                                     <<"s", "o", "c", "i", "a", "l", "s", "e", "c", "u", "r", "i", "t", "y">>, <<"s", "o", "c", "i", "a", "l", "-", "s", "e", "c", "u", "r", "i", "t", "y">>})
    THEN Some("Ssn")
    ELSE IF \/ ContainsAny(name_lower, {<<"i", "p", "_", "a", "d", "d", "r", "e", "s", "s">>, <<"i", "p", "a", "d", "d", "r", "e", "s", "s">>, <<"i", "p", "_", "a", "d", "d", "r">>,
                                        <<"c", "l", "i", "e", "n", "t", "_", "i", "p">>, <<"u", "s", "e", "r", "_", "i", "p">>, <<"s", "e", "r", "v", "e", "r", "_", "i", "p">>,
                                        <<"s", "o", "u", "r", "c", "e", "_", "i", "p">>, <<"d", "e", "s", "t", "_", "i", "p">>, <<"r", "e", "m", "o", "t", "e", "_", "i", "p">>})
            \/ name_lower = <<"i", "p">>
    THEN Some("IpAddress")
    ELSE IF ContainsAny(name_lower, {<<"a", "d", "d", "r", "e", "s", "s">>, <<"s", "t", "r", "e", "e", "t">>, <<"z", "i", "p">>, <<"p", "o", "s", "t", "a", "l">>,
                                     <<"p", "o", "s", "t", "c", "o", "d", "e">>})
    THEN Some("PostalCode")
    ELSE IF ContainsAny(name_lower, {<<"d", "o", "b">>, <<"b", "i", "r", "t", "h">>, <<"b", "i", "r", "t", "h", "d", "a", "t", "e">>,
                                     <<"d", "a", "t", "e", "_", "o", "f", "_", "b", "i", "r", "t", "h">>, <<"d", "a", "t", "e", "o", "f", "b", "i", "r", "t", "h">>})
    THEN Some("DateOfBirth")
    ELSE None

detect_pii_from_column_name(name) == NameHint(ToLowercase(name))

\* the number of values of the sample that the test accepts, trimmed
MatchCount(sample, Accepts(_)) ==
    Cardinality({i \in 1..Len(sample) : Accepts(Trim(sample[i]))})

IsSsn(trimmed) ==
    /\ ByteLen(trimmed) = 11
    /\ Cardinality({i \in 1..Len(trimmed) : trimmed[i] \in Digits}) = 9
    /\ is_match(SSN_REGEX, trimmed)

IsCreditCard(trimmed) == ByteLen(trimmed) > 13 /\ is_match(CREDIT_CARD_REGEX, trimmed)

IsEmail(trimmed) == is_match(EMAIL_REGEX, trimmed)
IsPhone(trimmed) == is_match(PHONE_REGEX, trimmed)
IsIpAddress(trimmed) == is_match(IP_ADDRESS_REGEX, trimmed)
IsDob(trimmed) == is_match(DOB_REGEX, trimmed)

IsPostal(trimmed) ==
    is_match(US_POSTAL_REGEX, trimmed) \/ is_match(CANADIAN_POSTAL_REGEX, trimmed)

\* ((sample_size as f64 * 0.3) as usize).max(1): the cast truncates
PiiThreshold(sample_size) ==
    IF (3 * sample_size) \div 10 > 1 THEN (3 * sample_size) \div 10 ELSE 1

DobThreshold(threshold, column_hint) ==
    IF column_hint = Some("DateOfBirth")
    THEN (IF threshold \div 2 > 1 THEN threshold \div 2 ELSE 1)
    ELSE threshold

\* mutant: the telephone check comes before the credit-card check
PiiDecisionPhoneFirst(sample, threshold, column_hint) ==
    IF MatchCount(sample, IsSsn) >= threshold THEN Some("Ssn")
    ELSE IF MatchCount(sample, IsPhone) >= threshold THEN Some("Phone")
    ELSE IF MatchCount(sample, IsCreditCard) >= threshold THEN Some("CreditCard")
    ELSE IF MatchCount(sample, IsEmail) >= threshold THEN Some("Email")
    ELSE IF MatchCount(sample, IsIpAddress) >= threshold THEN Some("IpAddress")
    ELSE IF MatchCount(sample, IsDob) >= DobThreshold(threshold, column_hint)
    THEN Some("DateOfBirth")
    ELSE IF MatchCount(sample, IsPostal) >= threshold /\ column_hint = Some("PostalCode")
    THEN Some("PostalCode")
    ELSE column_hint

\* the checks behind the counting, in the order of the code
PiiDecision(sample, threshold, column_hint) ==
    IF MatchCount(sample, IsSsn) >= threshold THEN Some("Ssn")
    ELSE IF MatchCount(sample, IsCreditCard) >= threshold THEN Some("CreditCard")
    ELSE IF MatchCount(sample, IsEmail) >= threshold THEN Some("Email")
    ELSE IF MatchCount(sample, IsPhone) >= threshold THEN Some("Phone")
    ELSE IF MatchCount(sample, IsIpAddress) >= threshold THEN Some("IpAddress")
    ELSE IF MatchCount(sample, IsDob) >= DobThreshold(threshold, column_hint)
    THEN Some("DateOfBirth")
    ELSE IF MatchCount(sample, IsPostal) >= threshold /\ column_hint = Some("PostalCode")
    THEN Some("PostalCode")
    ELSE column_hint

\* column_name is an Option
detect_pii_pattern_with_column_name(values, column_name) ==
    IF values = <<>> THEN None
    ELSE PiiDecision(Take(values, MinOf(Len(values), PiiSampleSize)),
                     PiiThreshold(MinOf(Len(values), PiiSampleSize)),
                     IF IsSome(column_name)
                     THEN detect_pii_from_column_name(column_name[1]) ELSE None)

detect_pii_pattern(values) == detect_pii_pattern_with_column_name(values, None)

check_pii_issues(pii_type, column_name) ==
    IF IsSome(pii_type)
    THEN << QualityIssue(column_name, PiiIdSuffix(pii_type[1]),
                         <<PiiMessage(pii_type[1])>>, PiiSeverity(pii_type[1])) >>
    ELSE <<>>

-----------------------------------------------------------------------------
(* ColumnProfile (stats/mod.rs).  The cardinality sketch is represented by *)
(* the set of values inserted into it and its estimate by the size of that *)
(* set.  Not represented: the finalized histogram.                         *)

MissingRowsCap == 1000
SampleValuesCap == 5
PiiSamplesCap == 100
PiiRowsCap == 100

ColumnProfileNew(name) ==
    [name |-> name,
     count |-> 0, missing |-> 0, distinct_estimate |-> 0, inferred_type |-> "Null",
     numeric_stats |-> None,
     categorical_stats |-> None,
     min_length |-> None, max_length |-> None,
     notes |-> <<>>,
     quality_metrics |-> None,
     hll |-> {},
     hist_acc |-> None,
     cat_acc |-> CategoricalAccumulatorNew(CatMaxUnique),
     integer_count |-> 0, numeric_count |-> 0, boolean_count |-> 0,
     date_count |-> 0, total_valid |-> 0,
     sample_values |-> <<>>,
     pii_samples |-> <<>>,
     missing_rows |-> <<>>, pii_rows |-> <<>>, outlier_rows |-> <<>>]

\* mutant: the words are compared in the case they were written in
IsMissingValueCaseSensitive(trimmed) ==
    \/ trimmed = <<>>
    \/ trimmed = <<"n", "u", "l", "l">>
    \/ trimmed = <<"n", "/", "a">>

IsMissingValue(trimmed) ==
    \/ trimmed = <<>>
    \/ ToLowercase(trimmed) = <<"n", "u", "l", "l">>
    \/ ToLowercase(trimmed) = <<"n", "/", "a">>

update_numeric(p, val) ==
    [p EXCEPT
       !.numeric_stats =
           Some(NumericStatsUpdate(IF IsSome(@) THEN @[1] ELSE NumericStatsNew, val)),
       !.hist_acc =
           IF ~IsSome(p.numeric_stats)
           THEN Some(HistogramAccumulatorUpdate(
                         HistogramAccumulatorNew(HistMaxSamples), val))
           ELSE IF IsSome(@) THEN Some(HistogramAccumulatorUpdate(@[1], val))
           ELSE @]

is_date(s) ==
    /\ Contains(s, "-") \/ Contains(s, "/")
    /\ ByteLen(s) >= 8
    /\ \E i \in 1..Len(s) : s[i] \in Digits

IsBooleanWord(lower) ==
    lower \in {<<"t", "r", "u", "e">>, <<"f", "a", "l", "s", "e">>, <<"t">>, <<"f">>}

InferNumber(p, trimmed, f) ==
    IF ParseI64Ok(trimmed)
    THEN update_numeric([p EXCEPT !.integer_count = @ + 1,
                                  !.numeric_count = @ + 1], f.val)
    ELSE IF f.ok
    THEN update_numeric([p EXCEPT !.numeric_count = @ + 1], f.val)
    ELSE IF IsBooleanWord(ToLowercase(trimmed))
    THEN [p EXCEPT !.boolean_count = @ + 1]
    ELSE IF is_date(trimmed)
    THEN [p EXCEPT !.date_count = @ + 1]
    ELSE p

infer_and_update(p, trimmed) == InferNumber(p, trimmed, ParseF64(trimmed))

InSeq(s, x) == \E i \in 1..Len(s) : s[i] = x

\* the part of update behind the missing-value check
UpdateValid(p, trimmed, row_index, len) ==
    [p EXCEPT
       !.total_valid = @ + 1,
       !.hll = @ \cup {trimmed},
       !.cat_acc = CategoricalAccumulatorUpdate(@, trimmed),
       !.sample_values =
           IF Len(@) < SampleValuesCap /\ ~InSeq(@, trimmed)
           THEN Append(@, trimmed) ELSE @,
       !.pii_samples = IF Len(@) < PiiSamplesCap THEN Append(@, trimmed) ELSE @,
       !.pii_rows =
           IF Len(p.pii_samples) < PiiSamplesCap /\ Len(@) < PiiRowsCap
           THEN Append(@, row_index) ELSE @,
       !.min_length = IF ~IsSome(@) \/ len < @[1] THEN Some(len) ELSE @,
       !.max_length = IF ~IsSome(@) \/ len > @[1] THEN Some(len) ELSE @]

\* mutant: the categorical accumulator is updated before the missing-value
\* check
UpdateTrimmedCounted(p, trimmed, row_index) ==
    IF IsMissingValue(trimmed)
    THEN [p EXCEPT !.count = @ + 1,
                   !.missing = @ + 1,
                   !.cat_acc = CategoricalAccumulatorUpdate(@, trimmed),
                   !.missing_rows =
                       IF Len(@) < MissingRowsCap THEN Append(@, row_index) ELSE @]
    ELSE infer_and_update(
             UpdateValid([p EXCEPT !.count = @ + 1], trimmed, row_index,
                         ByteLen(trimmed)),
             trimmed)

UpdateTrimmed(p, trimmed, row_index) ==
    IF IsMissingValue(trimmed)
    THEN [p EXCEPT !.count = @ + 1,
                   !.missing = @ + 1,
                   !.missing_rows =
                       IF Len(@) < MissingRowsCap THEN Append(@, row_index) ELSE @]
    ELSE infer_and_update(
             UpdateValid([p EXCEPT !.count = @ + 1], trimmed, row_index,
                         ByteLen(trimmed)),
             trimmed)

\* ColumnProfile::update
ColumnProfileUpdate(p, value, row_index) ==
    UpdateTrimmed(p, Trim(value), row_index)

\* mutant: the numeric test comes before the integer test
InferredTypeNumericFirst(p) ==
    IF p.total_valid = 0 THEN "Null"
    ELSE IF p.numeric_count = p.total_valid THEN "Numeric"
    ELSE IF p.integer_count = p.total_valid THEN "Integer"
    ELSE IF p.boolean_count = p.total_valid THEN "Boolean"
    ELSE IF p.date_count = p.total_valid THEN "Date"
    ELSE "String"

InferredType(p) ==
    IF p.total_valid = 0 THEN "Null"
    ELSE IF p.integer_count = p.total_valid THEN "Integer"
    ELSE IF p.numeric_count = p.total_valid THEN "Numeric"
    ELSE IF p.boolean_count = p.total_valid THEN "Boolean"
    ELSE IF p.date_count = p.total_valid THEN "Date"
    ELSE "String"

\* the penalty of the issues from the k-th on, taken off the score
RECURSIVE IssuePenalties(_, _, _)
IssuePenalties(score, issues, k) ==
    IF k > Len(issues) THEN score
    ELSE IssuePenalties(
             FpSub(score,
                   CASE issues[k].severity = "Error" -> FpExact(3, 1, 0 - 1)
                     [] issues[k].severity = "Warning" -> FpExact(15, 1, 0 - 2)
                     [] issues[k].severity = "Info" -> FpExact(5, 1, 0 - 2)),
             issues, k + 1)

FpClampUnit(score) ==
    IF FpLess(score, FpZero) THEN FpZero
    ELSE IF FpLess(FpFromInt(1), score) THEN FpFromInt(1)
    ELSE score

calculate_quality_score(p, metrics) ==
    FpClampUnit(
        IssuePenalties(
            FpAdd(FpAdd(FpAdd(FpZero, FpMul(metrics.completeness, FpExact(4, 1, 0 - 1))),
                        IF p.inferred_type # "String"
                           \/ FpLess(metrics.uniqueness, FpExact(9, 1, 0 - 1))
                        THEN FpMul(metrics.uniqueness, FpExact(2, 1, 0 - 1))
                        ELSE FpExact(2, 1, 0 - 1)),
                  FpExact(4, 1, 0 - 1)),
            metrics.issues, 1))

QualityIssues(p, completeness, uniqueness) ==
    check_completeness_issues(completeness, p.name)
    \o check_uniqueness_issues(uniqueness, p.name, p.inferred_type)
    \o (IF p.pii_samples # <<>>
        THEN check_pii_issues(detect_pii_pattern(p.pii_samples), p.name)
        ELSE <<>>)

QualityMetrics(p, completeness, uniqueness) ==
    [ColumnQualityMetricsNew EXCEPT
       !.completeness = completeness,
       !.uniqueness = uniqueness,
       !.issues = QualityIssues(p, completeness, uniqueness)]

ScoredMetrics(p, metrics) ==
    [metrics EXCEPT !.score = calculate_quality_score(p, metrics)]

calculate_quality_metrics(p) ==
    [p EXCEPT !.quality_metrics =
        Some(ScoredMetrics(p,
            QualityMetrics(p,
                calculate_completeness(p.count, p.missing),
                calculate_uniqueness(p.count, p.missing, p.distinct_estimate))))]

\* finalize up to the call of calculate_quality_metrics, the counts map of
\* cat_acc iterated in the given order
FinalizeStats(p, order) ==
    [p EXCEPT
       !.distinct_estimate = Cardinality(p.hll),
       !.categorical_stats = Some(CategoricalFinalize(p.cat_acc, order)),
       !.inferred_type = InferredType(p),
       !.notes =
           IF InferredType(p) = "String" /\ p.numeric_count > 0
              /\ 2 * p.numeric_count > p.total_valid
           THEN Append(@, "Potentially numeric with exceptions") ELSE @]

\* ColumnProfile::finalize
ColumnProfileFinalize(p, order) == calculate_quality_metrics(FinalizeStats(p, order))

-----------------------------------------------------------------------------
(* export/json.rs.  Of an ExportColumn the model holds the name, the       *)
(* counts, the type, the lengths, the quality block and the notes; the     *)
(* nested numeric, categorical and histogram blocks are left out.          *)

\* f64::round of the rational n / d, d > 0: half away from zero
RoundRatio(n, d) == SignOf(n) * ((2 * Abs(n) + d) \div (2 * d))

\* f64::round of a finite value
FpRound(v) ==
    IF v.e >= 0 THEN FpFromInt(RoundRatio(v.n * Pow10(v.e), v.d))
    ELSE FpFromInt(RoundRatio(v.n, v.d * Pow10(0 - v.e)))

round_to_precision(value, decimals) ==
    IF FpIsFinite(value)
    THEN FpDiv(FpRound(FpMul(value, FpExact(1, 1, decimals))), FpExact(1, 1, decimals))
    ELSE value

\* f64::min(self, other), neither NaN
FpMin(a, b) == IF FpLess(b, a) THEN b ELSE a

pii_keywords ==
    { <<"e", "m", "a", "i", "l">>, <<"p", "h", "o", "n", "e">>, <<"s", "s", "n">>, <<"s", "o", "c", "i", "a", "l", "_", "s", "e", "c", "u", "r", "i", "t", "y">>, <<"a", "d", "d", "r", "e", "s", "s">>, <<"n", "a", "m", "e">>,
      <<"f", "i", "r", "s", "t", "_", "n", "a", "m", "e">>, <<"l", "a", "s", "t", "_", "n", "a", "m", "e">>, <<"f", "i", "r", "s", "t", "n", "a", "m", "e">>, <<"l", "a", "s", "t", "n", "a", "m", "e">>, <<"d", "o", "b">>,
      <<"d", "a", "t", "e", "_", "o", "f", "_", "b", "i", "r", "t", "h">>, <<"b", "i", "r", "t", "h">>, <<"p", "a", "s", "s", "p", "o", "r", "t">>, <<"l", "i", "c", "e", "n", "s", "e">>, <<"c", "r", "e", "d", "i", "t", "_", "c", "a", "r", "d">>,
      <<"c", "a", "r", "d", "_", "n", "u", "m", "b", "e", "r">>, <<"z", "i", "p">>, <<"p", "o", "s", "t", "a", "l">>, <<"i", "p", "_", "a", "d", "d", "r", "e", "s", "s">>, <<"i", "p">> }

is_potential_pii(name) == ContainsAny(ToLowercase(name), pii_keywords)

ExportCompleteness(count, missing) ==
    IF count > 0
    THEN round_to_precision(FpDiv(FpFromInt(count - missing), FpFromInt(count)), 6)
    ELSE FpZero

ExportUniqueness(count, missing, distinct) ==
    IF count > missing /\ count > 0
    THEN FpMin(round_to_precision(FpDiv(FpFromInt(distinct),
                                        FpFromInt(count - missing)), 6),
               FpFromInt(1))
    ELSE FpZero

convert_column(profile) ==
    [name |-> profile.name,
     stats |-> [count |-> profile.count,
                missing |-> profile.missing,
                distinct |-> profile.distinct_estimate,
                inferred_type |-> profile.inferred_type,
                min_length |-> profile.min_length,
                max_length |-> profile.max_length],
     quality |-> [completeness |-> ExportCompleteness(profile.count, profile.missing),
                  uniqueness |-> ExportUniqueness(profile.count, profile.missing,
                                                  profile.distinct_estimate),
                  is_potential_pii |-> is_potential_pii(profile.name)],
     notes |-> profile.notes]

-----------------------------------------------------------------------------
(* DuplicateDetector (quality/duplicates.rs) *)

DuplicateDetectorNew == [seen_rows |-> {}, duplicate_count |-> 0, total_rows |-> 0]

\* mutant: a row is compared with the rows seen but not remembered
DuplicateSeenForgets(d, row) ==
    [d EXCEPT !.total_rows = @ + 1,
              !.duplicate_count = IF row \in d.seen_rows THEN @ + 1 ELSE @]

\* one iteration of process_batch
DuplicateSeen(d, row) ==
    [d EXCEPT !.total_rows = @ + 1,
              !.seen_rows = @ \cup {row},
              !.duplicate_count = IF row \in d.seen_rows THEN @ + 1 ELSE @]

RECURSIVE process_batch(_, _)
process_batch(d, rows) ==
    IF rows = <<>> THEN d
    ELSE process_batch(DuplicateSeen(d, Head(rows)), Tail(rows))

\* duplicate_percentage() > pct, on the exact quotient
DuplicatePercentageOver(d, pct) ==
    d.total_rows # 0 /\ d.duplicate_count * 100 > pct * d.total_rows

check_duplicate_issues(d) ==
    IF d.duplicate_count = 0 THEN <<>>
    ELSE <<[id |-> "duplicate_rows",
            severity |-> IF DuplicatePercentageOver(d, 10) THEN "Error"
                         ELSE IF DuplicatePercentageOver(d, 1) THEN "Warning"
                         ELSE "Info"]>>

-----------------------------------------------------------------------------
(* Profiler (stats/profiler.rs) *)

ProfilerNew(headers) ==
    [column_profiles |-> [i \in 1..Len(headers) |-> ColumnProfileNew(headers[i])],
     total_rows |-> 0,
     headers |-> headers,
     duplicate_detector |-> DuplicateDetectorNew]

\* mutant: a short row is padded with empty cells up to the headers
RECURSIVE UpdateCellsPadded(_, _, _)
UpdateCellsPadded(p, row, i) ==
    IF i > Len(p.column_profiles) THEN p
    ELSE UpdateCellsPadded(
             [p EXCEPT !.column_profiles[i] =
                 ColumnProfileUpdate(@, IF i <= Len(row) THEN row[i] ELSE <<>>,
                                     p.total_rows)],
             row, i + 1)

\* the cells of a row from position i on, with the row's index
RECURSIVE UpdateCells(_, _, _)
UpdateCells(p, row, i) ==
    IF i > Len(row) THEN p
    ELSE IF i <= Len(p.column_profiles)
    THEN UpdateCells([p EXCEPT !.column_profiles[i] =
                                   ColumnProfileUpdate(@, row[i], p.total_rows)],
                     row, i + 1)
    ELSE UpdateCells(p, row, i + 1)

\* mutant: the row is counted behind its cells
UpdateRowCountedLate(p, row) ==
    [UpdateCells(p, row, 1) EXCEPT !.total_rows = @ + 1]

\* one iteration of the row loop of update_batch
UpdateRow(p, row) == UpdateCells([p EXCEPT !.total_rows = @ + 1], row, 1)

RECURSIVE UpdateRows(_, _)
UpdateRows(p, rows) ==
    IF rows = <<>> THEN p ELSE UpdateRows(UpdateRow(p, Head(rows)), Tail(rows))

update_batch(p, rows) ==
    UpdateRows([p EXCEPT !.duplicate_detector = process_batch(@, rows)], rows)

ProfilerResult(p) ==
    [column_profiles |-> p.column_profiles,
     total_rows |-> p.total_rows,
     duplicate_issues |-> check_duplicate_issues(p.duplicate_detector)]

\* one iteration order per column
ProfilerOrders(p) ==
    {o \in [1..Len(p.column_profiles) ->
               UNION {HashOrders(p.column_profiles[i].cat_acc) :
                        i \in 1..Len(p.column_profiles)}] :
        \A i \in 1..Len(p.column_profiles) :
            o[i] \in HashOrders(p.column_profiles[i].cat_acc)}

FinalizedColumns(p, orders) ==
    [p EXCEPT !.column_profiles =
                  [i \in 1..Len(@) |-> ColumnProfileFinalize(@[i], orders[i])]]

\* Profiler::finalize: the profiler afterwards and the result
ProfilerFinalize(p, orders) ==
    [p |-> FinalizedColumns(p, orders),
     res |-> ProfilerResult(FinalizedColumns(p, orders))]

-----------------------------------------------------------------------------
(* CsvParser::auto_detect_delimiter (parser/csv.rs) *)

DelimiterCandidates == <<",", "\t", ";", "|">>

DetectSampleRecords == 10

\* the field counts of the Ok records among the results
RECURSIVE RowLengths(_)
RowLengths(results) ==
    IF results = <<>> THEN <<>>
    ELSE IF Head(results).ok
    THEN <<Len(Head(results).rec)>> \o RowLengths(Tail(results))
    ELSE RowLengths(Tail(results))

\* count * first_len, 0 for a candidate that gets no score
LengthsScore(row_lengths) ==
    IF /\ Len(row_lengths) > 1
       /\ row_lengths[1] > 1
       /\ \A k \in 1..Len(row_lengths) : row_lengths[k] = row_lengths[1]
    THEN Len(row_lengths) * row_lengths[1]
    ELSE 0

CandidateScore(data, delim) ==
    LengthsScore(RowLengths(Take(CsvReader(data, delim, FALSE).results,
                                 DetectSampleRecords)))

RECURSIVE BestDelimiter(_, _, _, _)
BestDelimiter(data, k, best_delimiter, max_score) ==
    IF k > Len(DelimiterCandidates) THEN best_delimiter
    ELSE IF CandidateScore(data, DelimiterCandidates[k]) > max_score
    THEN BestDelimiter(data, k + 1, DelimiterCandidates[k],
                       CandidateScore(data, DelimiterCandidates[k]))
    ELSE BestDelimiter(data, k + 1, best_delimiter, max_score)

auto_detect_delimiter(data) == BestDelimiter(data, 1, ",", 0)

-----------------------------------------------------------------------------
(* ParquetProfiler and AvroProfiler (parser/parquet.rs, parser/avro.rs) on *)
(* a fresh profiler.  The file is represented by what its reader yields: a *)
(* sequence of record results, an Ok one holding the row of cell texts     *)
(* that the record is converted to.  Fewer than 1000 records: one batch.   *)

RECURSIVE BlockOkRows(_)
BlockOkRows(results) ==
    IF results = <<>> THEN <<>>
    ELSE IF Head(results).ok THEN <<Head(results).row>> \o BlockOkRows(Tail(results))
    ELSE BlockOkRows(Tail(results))

\* the profiler behind the final batch
BlockProfiler(headers, results) ==
    IF results = <<>> THEN ProfilerNew(headers)
    ELSE update_batch(ProfilerNew(headers), BlockOkRows(results))

\* parse_and_profile: the ? on a record result returns at the first Err; an
\* Avro file creates its profiler at the first record
parse_and_profile(format, headers, results, orders) ==
    IF \E k \in 1..Len(results) : ~results[k].ok
    THEN [ok |-> FALSE, err |-> "record", stats |-> None]
    ELSE IF format = "avro" /\ results = <<>>
    THEN [ok |-> FALSE, err |-> "Profiler not initialized", stats |-> None]
    ELSE [ok |-> TRUE, err |-> "",
          stats |-> Some(ProfilerFinalize(BlockProfiler(headers, results), orders).res)]

-----------------------------------------------------------------------------
(* CorrelationAccumulator (stats/correlation.rs).  Vectors are indexed     *)
(* from 1: entry (i, j) of a flat n * n vector is at (i - 1) * n + j.      *)

\* the index kept for a name is the last one inserted
ColumnIndices(numeric_columns) ==
    [name \in {numeric_columns[i] : i \in 1..Len(numeric_columns)} |->
        LastIndexOf(numeric_columns, name)]

CorrelationAccumulatorNew(numeric_columns) ==
    [columns |-> numeric_columns,
     column_indices |-> ColumnIndices(numeric_columns),
     pair_counts |-> [x \in 1..(Len(numeric_columns) * Len(numeric_columns)) |-> 0],
     means |-> [i \in 1..Len(numeric_columns) |-> FpZero],
     m2s |-> [i \in 1..Len(numeric_columns) |-> FpZero],
     co_moments |-> [x \in 1..(Len(numeric_columns) * Len(numeric_columns)) |-> FpZero],
     column_counts |-> [i \in 1..Len(numeric_columns) |-> 0]]

\* the number a cell holds, None for a missing cell, for a cell that is no
\* number and for NaN and the infinities
CorrelationParsed(trimmed, f) ==
    IF IsMissingValue(trimmed) \/ ~f.ok THEN None
    ELSE IF FpIsFinite(FpFromF64(f.val)) THEN Some(FpFromF64(f.val))
    ELSE None

CorrelationParse(value) == CorrelationParsed(Trim(value), ParseF64(Trim(value)))

\* parsed_values of update
ParsedValues(a, values) ==
    [i \in 1..Len(a.columns) |->
        IF a.columns[i] \in DOMAIN values /\ a.column_indices[a.columns[i]] = i
        THEN CorrelationParse(values[a.columns[i]])
        ELSE None]

\* Welford's step for one column
WelfordMean(mean, val, count) == FpAdd(mean, FpDiv(FpSub(val, mean), FpFromInt(count)))

WelfordM2(m2, mean, val, count) ==
    FpAdd(m2, FpMul(FpSub(val, mean), FpSub(val, WelfordMean(mean, val, count))))

\* the first loop of update
UpdateColumns(a, parsed) ==
    [a EXCEPT
       !.means = [i \in DOMAIN @ |->
                    IF IsSome(parsed[i])
                    THEN WelfordMean(@[i], parsed[i][1], a.column_counts[i] + 1)
                    ELSE @[i]],
       !.m2s = [i \in DOMAIN @ |->
                    IF IsSome(parsed[i])
                    THEN WelfordM2(@[i], a.means[i], parsed[i][1], a.column_counts[i] + 1)
                    ELSE @[i]],
       !.column_counts = [i \in DOMAIN @ |-> IF IsSome(parsed[i]) THEN @[i] + 1 ELSE @[i]]]

PairRow(a, x) == ((x - 1) \div Len(a.columns)) + 1
PairCol(a, x) == ((x - 1) % Len(a.columns)) + 1

\* factor * delta_x * delta_y, the deltas taken from the means the first
\* loop has already moved
CoMomentStep(a, val_i, val_j, i, j, pair_count) ==
    FpMul(FpMul(FpDiv(FpFromInt(pair_count - 1), FpFromInt(pair_count)),
                FpSub(val_i, a.means[i])),
          FpSub(val_j, a.means[j]))

\* the second loop of update, a holding the means of the first
UpdatePairs(a, parsed) ==
    [a EXCEPT
       !.pair_counts = [x \in DOMAIN @ |->
            IF IsSome(parsed[PairRow(a, x)]) /\ IsSome(parsed[PairCol(a, x)])
            THEN @[x] + 1 ELSE @[x]],
       !.co_moments = [x \in DOMAIN @ |->
            IF IsSome(parsed[PairRow(a, x)]) /\ IsSome(parsed[PairCol(a, x)])
               /\ a.pair_counts[x] + 1 > 1
            THEN FpAdd(@[x], CoMomentStep(a, parsed[PairRow(a, x)][1],
                                          parsed[PairCol(a, x)][1],
                                          PairRow(a, x), PairCol(a, x),
                                          a.pair_counts[x] + 1))
            ELSE @[x]]]

\* CorrelationAccumulator::update
CorrelationUpdate(a, values) ==
    IF Len(a.columns) = 0 THEN a
    ELSE UpdatePairs(UpdateColumns(a, ParsedValues(a, values)), ParsedValues(a, values))

\* the map update_batch builds from a row: a later cell under the same
\* header replaces an earlier one
RowValues(headers, row) ==
    [name \in {headers[i] : i \in 1..MinOf(Len(headers), Len(row))} |->
        row[LastIndexOf(SubSeq(headers, 1, MinOf(Len(headers), Len(row))), name)]]

RECURSIVE CorrelationUpdateBatch(_, _, _)
CorrelationUpdateBatch(a, headers, rows) ==
    IF rows = <<>> THEN a
    ELSE CorrelationUpdateBatch(CorrelationUpdate(a, RowValues(headers, Head(rows))),
                                headers, Tail(rows))

\* An entry of the matrix: NaN, or sign * sqrt(sq) with sq an exact value.
CoefNan == [k |-> "nan", sign |-> 0, sq |-> FpZero]
CoefZero == [k |-> "finite", sign |-> 0, sq |-> FpZero]
CoefOne(sign) == [k |-> "finite", sign |-> sign, sq |-> FpFromInt(1)]

\* sign * sqrt(sq) clamped to [-1, 1]
CoefClamped(sign, sq) ==
    IF sign = 0 THEN CoefZero
    ELSE IF FpPositive(FpSub(sq, FpFromInt(1))) THEN CoefOne(sign)
    ELSE [k |-> "finite", sign |-> sign, sq |-> sq]

\* (covariance / p).clamp(-1.0, 1.0) for the finite product p = std_x * std_y
\* given by its square p2
CoefOverFinite(covariance, p2) ==
    IF FpIsInfinite(covariance) THEN CoefOne(FpSign(covariance))
    ELSE IF covariance.n = 0 THEN CoefZero
    ELSE CoefClamped(FpSign(covariance),
                     FpExact(covariance.n * covariance.n * p2.d,
                             covariance.d * covariance.d * p2.n,
                             2 * covariance.e - p2.e))

\* (covariance / (var_x.sqrt() * var_y.sqrt())).clamp(-1.0, 1.0) for
\* var_x, var_y > 0, p2 being var_x * var_y when both are finite
CoefOverProduct(covariance, var_x, var_y, p2) ==
    IF FpIsNan(covariance) THEN CoefNan
    ELSE IF FpIsInfinite(var_x) \/ FpIsInfinite(var_y) \/ FpOrder(p2) > 2 * 308 + 1
    THEN (IF FpIsInfinite(covariance) THEN CoefNan ELSE CoefZero)
    ELSE IF FpOrder(p2) < 2 * (0 - 324)
    THEN (IF FpSign(covariance) = 0 THEN CoefNan ELSE CoefOne(FpSign(covariance)))
    ELSE CoefOverFinite(covariance, p2)

Coefficient(co_moment, var_x, var_y, count) ==
    IF FpPositive(var_x) /\ FpPositive(var_y)
    THEN CoefOverProduct(FpDiv(co_moment, FpSub(FpFromInt(count), FpFromInt(1))),
                         var_x, var_y,
                         IF FpIsFinite(var_x) /\ FpIsFinite(var_y)
                         THEN FpExact(var_x.n * var_y.n, var_x.d * var_y.d,
                                      var_x.e + var_y.e)
                         ELSE FpZero)
    ELSE CoefZero

Variance(a, i) ==
    FpDiv(a.m2s[i], FpSub(FpFromInt(a.column_counts[i]), FpFromInt(1)))

\* CorrelationAccumulator::finalize
CorrelationFinalize(a) ==
    [columns |-> a.columns,
     matrix |->
        [i \in 1..Len(a.columns) |->
            [j \in 1..Len(a.columns) |->
                IF i = j THEN CoefOne(1)
                ELSE IF a.pair_counts[(i - 1) * Len(a.columns) + j] > 1
                THEN Coefficient(a.co_moments[(i - 1) * Len(a.columns) + j],
                                 Variance(a, i), Variance(a, j),
                                 a.pair_counts[(i - 1) * Len(a.columns) + j])
                ELSE CoefZero]]]

-----------------------------------------------------------------------------
(* One column fed cell by cell, then finalized.  The row index of a cell   *)
(* is its position in the feed, as Profiler::update_batch passes it.       *)

ColumnCells ==
    { <<" ">>, <<"N", "/", "A">>, <<" ", "1", " ">>, <<"1", ".", "5">>,
      <<"N", "a", "N">>, <<"t">>, <<"2", "0", "2", "0", "-", "1", "-", "1">>,
      <<"x">> }

ColumnIdle ==
    /\ col = ColumnProfileNew(<<"c">>)
    /\ col_cells = <<>>
    /\ col_pc = "idle"

ColumnInit ==
    /\ col = ColumnProfileNew(<<"c">>)
    /\ col_cells = <<>>
    /\ col_pc = "open"

ColumnUpdate ==
    /\ col_pc = "open"
    /\ Len(col_cells) < MaxCells
    /\ \E value \in ColumnCells :
         /\ col' = ColumnProfileUpdate(col, value, Len(col_cells) + 1)
         /\ col_cells' = Append(col_cells, value)
    /\ UNCHANGED col_pc

ColumnFinalize ==
    /\ col_pc = "open"
    /\ \E order \in HashOrders(col.cat_acc) : col' = ColumnProfileFinalize(col, order)
    /\ col_pc' = "finalized"
    /\ UNCHANGED col_cells

-----------------------------------------------------------------------------
(* One CategoricalAccumulator fed value by value, then finalized.          *)

CategoricalValues == { <<"a">>, <<"b">>, <<"c">>, <<"d">> }

CategoricalIdle ==
    /\ cat = CategoricalAccumulatorNew(MaxUniqueModel)
    /\ cat_vals = <<>>
    /\ cat_stats = None
    /\ cat_pc = "idle"

CategoricalInit ==
    /\ cat = CategoricalAccumulatorNew(MaxUniqueModel)
    /\ cat_vals = <<>>
    /\ cat_stats = None
    /\ cat_pc = "open"

CategoricalUpdate ==
    /\ cat_pc = "open"
    /\ Len(cat_vals) < MaxCatUpdates
    /\ \E value \in CategoricalValues :
         /\ cat' = CategoricalAccumulatorUpdate(cat, value)
         /\ cat_vals' = Append(cat_vals, value)
    /\ UNCHANGED <<cat_stats, cat_pc>>

CategoricalFinish ==
    /\ cat_pc = "open"
    /\ \E order \in HashOrders(cat) :
         cat_stats' = Some(CategoricalFinalize(cat, order))
    /\ cat_pc' = "finalized"
    /\ UNCHANGED <<cat, cat_vals>>

-----------------------------------------------------------------------------
(* One Profiler fed batches of rows, then finalized.  Rows are one cell    *)
(* shorter than the headers, as long, or one cell longer.                  *)

ProfilerHeaders == << <<"x">>, <<"y">> >>

ProfilerCells == { <<>>, <<"1">> }

ProfilerRows ==
    UNION {[1..n -> ProfilerCells] :
             n \in (Len(ProfilerHeaders) - 1)..(Len(ProfilerHeaders) + 1)}

ProfilerIdle ==
    /\ prof = ProfilerNew(<<>>)
    /\ prof_rows = <<>>
    /\ prof_pc = "idle"

ProfilerInit ==
    /\ prof = ProfilerNew(ProfilerHeaders)
    /\ prof_rows = <<>>
    /\ prof_pc = "open"

ProfilerUpdateBatch ==
    /\ prof_pc = "open"
    /\ \E rows \in BoundedSeq(ProfilerRows, MinOf(MaxBatch, MaxRows - Len(prof_rows))) :
         /\ prof' = update_batch(prof, rows)
         /\ prof_rows' = prof_rows \o rows
    /\ UNCHANGED prof_pc

ProfilerFinish ==
    /\ prof_pc = "open"
    /\ \E orders \in ProfilerOrders(prof) : prof' = ProfilerFinalize(prof, orders).p
    /\ prof_pc' = "finalized"
    /\ UNCHANGED prof_rows

-----------------------------------------------------------------------------
(* Two Profilers, each with its own hashers, fed the same batches of rows  *)
(* and then finalized.                                                     *)

TwinHeaders == << <<"x">> >>

TwinRows == { <<cell>> : cell \in { <<>>, <<"a">>, <<"b">>, <<"1">> } }

TwinsIdle ==
    /\ twin_a = ProfilerNew(<<>>)
    /\ twin_b = ProfilerNew(<<>>)
    /\ twin_rows = <<>>
    /\ twin_res = None
    /\ twin_pc = "idle"

TwinsInit ==
    /\ twin_a = ProfilerNew(TwinHeaders)
    /\ twin_b = ProfilerNew(TwinHeaders)
    /\ twin_rows = <<>>
    /\ twin_res = None
    /\ twin_pc = "open"

TwinsUpdateBatch ==
    /\ twin_pc = "open"
    /\ \E rows \in BoundedSeq(TwinRows, MinOf(MaxBatch, MaxRows - Len(twin_rows))) :
         /\ twin_a' = update_batch(twin_a, rows)
         /\ twin_b' = update_batch(twin_b, rows)
         /\ twin_rows' = twin_rows \o rows
    /\ UNCHANGED <<twin_res, twin_pc>>

TwinsFinish ==
    /\ twin_pc = "open"
    /\ \E oa \in ProfilerOrders(twin_a), ob \in ProfilerOrders(twin_b) :
         /\ twin_a' = ProfilerFinalize(twin_a, oa).p
         /\ twin_b' = ProfilerFinalize(twin_b, ob).p
         /\ twin_res' = Some([a |-> ProfilerFinalize(twin_a, oa).res,
                              b |-> ProfilerFinalize(twin_b, ob).res])
    /\ twin_pc' = "finalized"
    /\ UNCHANGED twin_rows

-----------------------------------------------------------------------------
(* One column of a long file: a first batch of FillRows rows, all          *)
(* different numbers or all empty, then cells one by one.  The column is   *)
(* not finalized.                                                          *)

FillRows == 999

\* ColumnProfile::update over the cells of a column up to cell hi, for a
\* profile that has seen the cells before its next one; the row index of a
\* cell is its position
RECURSIVE FeedCells(_, _, _)
FeedCells(p, cells, hi) ==
    IF p.count >= hi THEN p
    ELSE IF p.count + 1 = hi THEN ColumnProfileUpdate(p, cells[hi], hi)
    ELSE FeedCells(FeedCells(p, cells, (p.count + hi) \div 2), cells, hi)

LongFills == {"numbers", "missing"}

FillCells(fill) ==
    [i \in 1..FillRows |-> IF fill = "numbers" THEN UsizeToString(i) ELSE <<>>]

\* the cells a row behind the first batch can hold: empty, a word, or the
\* number of the row
LongCells(row_index) == { <<>>, <<"a">>, <<"b">>, UsizeToString(row_index) }

LongIdle ==
    /\ long = ColumnProfileNew(<<"c">>)
    /\ long_fill = "none"
    /\ long_base = ColumnProfileNew(<<"c">>)
    /\ long_cells = <<>>
    /\ long_pc = "idle"

LongInit ==
    /\ long = ColumnProfileNew(<<"c">>)
    /\ long_fill = "none"
    /\ long_base = ColumnProfileNew(<<"c">>)
    /\ long_cells = <<>>
    /\ long_pc = "new"

LongFill ==
    /\ long_pc = "new"
    /\ \E fill \in LongFills :
         /\ long' = FeedCells(long, FillCells(fill), FillRows)
         /\ long_fill' = fill
    /\ long_base' = long'
    /\ long_pc' = "open"
    /\ UNCHANGED long_cells

LongUpdate ==
    /\ long_pc = "open"
    /\ Len(long_cells) < MaxCells
    /\ \E value \in LongCells(FillRows + Len(long_cells) + 1) :
         /\ long' = ColumnProfileUpdate(long, value, FillRows + Len(long_cells) + 1)
         /\ long_cells' = Append(long_cells, value)
    /\ UNCHANGED <<long_fill, long_base, long_pc>>

-----------------------------------------------------------------------------
(* One CorrelationAccumulator over the columns a and b, fed batches of     *)
(* rows and then finalized.                                                *)

CorrelationColumns == << <<"a">>, <<"b">> >>

CorrelationNumbers == { <<"1">>, <<"2">>, <<"1", "e", "2", "0", "0">> }

\* a cell of a is a number or empty, a cell of b a number or a word
CorrelationRows ==
    { <<x, y>> : x \in CorrelationNumbers \cup { <<>> },
                 y \in CorrelationNumbers \cup { <<"x">> } }

CorrelationIdle ==
    /\ cor = CorrelationAccumulatorNew(<<>>)
    /\ cor_rows = <<>>
    /\ cor_res = None
    /\ cor_pc = "idle"

CorrelationInit ==
    /\ cor = CorrelationAccumulatorNew(CorrelationColumns)
    /\ cor_rows = <<>>
    /\ cor_res = None
    /\ cor_pc = "open"

CorrelationBatch ==
    /\ cor_pc = "open"
    /\ \E rows \in BoundedSeq(CorrelationRows, MinOf(MaxBatch, MaxPairs - Len(cor_rows))) :
         /\ rows # <<>>
         /\ cor' = CorrelationUpdateBatch(cor, CorrelationColumns, rows)
         /\ cor_rows' = cor_rows \o rows
    /\ UNCHANGED <<cor_res, cor_pc>>

CorrelationFinish ==
    /\ cor_pc = "open"
    /\ cor_res' = Some(CorrelationFinalize(cor))
    /\ cor_pc' = "finalized"
    /\ UNCHANGED <<cor, cor_rows>>

-----------------------------------------------------------------------------
(* One call of calculate_uniqueness with the counts of a column: the       *)
(* missing cells are among the cells counted, the estimate of the distinct *)
(* values is any number.                                                   *)

UniquenessInputs ==
    { <<total, missing, distinct>> :
        total \in 0..MaxCount, missing \in 0..MaxCount, distinct \in 0..(MaxCount + 1) }

UniquenessIdle ==
    /\ uni_in = <<0, 0, 0>>
    /\ uni_out = None

UniquenessInit ==
    /\ uni_in \in {in \in UniquenessInputs : in[2] <= in[1]}
    /\ uni_out = None

UniquenessCall ==
    /\ uni_out = None
    /\ uni_out' = Some(calculate_uniqueness(uni_in[1], uni_in[2], uni_in[3]))
    /\ UNCHANGED uni_in

-----------------------------------------------------------------------------
(* One named column fed cells that hold an e-mail address, a word or       *)
(* nothing, then finalized.                                                *)

PiiNames == { <<"c">>, <<"e", "m", "a", "i", "l", "_", "a", "d", "d", "r", "e", "s", "s">> }

PiiCells == { <<>>, <<"a", "@", "b", ".", "c", "o">>, <<"x", "y">> }

PiiIdle ==
    /\ pii = ColumnProfileNew(<<"c">>)
    /\ pii_cells = <<>>
    /\ pii_pc = "idle"

PiiInit ==
    /\ \E name \in PiiNames : pii = ColumnProfileNew(name)
    /\ pii_cells = <<>>
    /\ pii_pc = "open"

PiiUpdate ==
    /\ pii_pc = "open"
    /\ Len(pii_cells) < MaxPiiCells
    /\ \E value \in PiiCells :
         /\ pii' = ColumnProfileUpdate(pii, value, Len(pii_cells) + 1)
         /\ pii_cells' = Append(pii_cells, value)
    /\ UNCHANGED pii_pc

PiiFinalize ==
    /\ pii_pc = "open"
    /\ \E order \in HashOrders(pii.cat_acc) : pii' = ColumnProfileFinalize(pii, order)
    /\ pii_pc' = "finalized"
    /\ UNCHANGED pii_cells

-----------------------------------------------------------------------------
(* One call of CsvParser::auto_detect_delimiter on a sample of up to       *)
(* MaxLines lines.                                                         *)

DetectLines ==
    { <<"a">>, <<",">>, <<";">>, <<"|">>, <<"\t", ";">>, <<";", ";">> }

RECURSIVE JoinLines(_)
JoinLines(lines) ==
    IF lines = <<>> THEN <<>> ELSE Head(lines) \o <<"\n">> \o JoinLines(Tail(lines))

DetectInputs == {JoinLines(lines) : lines \in BoundedSeq(DetectLines, MaxLines)}

DetectIdle ==
    /\ det_in = <<>>
    /\ det_out = None

DetectInit ==
    /\ det_in \in DetectInputs
    /\ det_out = None

DetectCall ==
    /\ det_out = None
    /\ det_out' = Some(auto_detect_delimiter(det_in))
    /\ UNCHANGED det_in

-----------------------------------------------------------------------------
(* One ParquetProfiler or AvroProfiler handed one file: the schema gives   *)
(* the header x, the reader yields up to MaxRecords record results.        *)

BlockFormats == {"parquet", "avro"}

BlockResults == { [ok |-> FALSE, row |-> <<>>],
                  [ok |-> TRUE, row |-> << <<"1">> >>],
                  [ok |-> TRUE, row |-> << <<"a">> >>] }

BlockHeaders == << <<"x">> >>

BlockIdle ==
    /\ blk_in = [format |-> "none", results |-> <<>>]
    /\ blk_out = None

BlockInit ==
    /\ blk_in \in [format : BlockFormats, results : BoundedSeq(BlockResults, MaxRecords)]
    /\ blk_out = None

BlockParse ==
    /\ blk_out = None
    /\ \E orders \in ProfilerOrders(BlockProfiler(BlockHeaders, blk_in.results)) :
         blk_out' = Some(parse_and_profile(blk_in.format, BlockHeaders,
                                           blk_in.results, orders))
    /\ UNCHANGED blk_in

-----------------------------------------------------------------------------
(* The profiler of an ingestion session (lib.rs): created by the first     *)
(* result that carries headers.                                            *)

SessionIdle ==
    /\ ses_profiler = None
    /\ ses_result = None

ProfileRows(o, rows) == IF IsSome(o) THEN Some(update_batch(o[1], rows)) ELSE o

\* parse_and_profile_chunk behind the parser call
ProfileChunk(o, res) ==
    ProfileRows(IF ~IsSome(o) /\ res.headers # <<>>
                THEN Some(ProfilerNew(res.headers)) ELSE o,
                res.rows)

SessionReport(f) ==
    [profiler |-> Some(f.p), result |-> Some([ok |-> TRUE, report |-> f.res])]

SessionOrders(o) == IF IsSome(o) THEN ProfilerOrders(o[1]) ELSE {<<>>}

\* finalize behind the parser flush and the update_batch with its rows
SessionFinalize(o, orders) ==
    IF IsSome(o)
    THEN SessionReport(ProfilerFinalize(o[1], orders))
    ELSE [profiler |-> o,
          result |-> Some([ok |-> FALSE, error |-> "No data was processed"])]

SessionFinalized(f) ==
    /\ ses_profiler' = f.profiler
    /\ ses_result' = f.result

-----------------------------------------------------------------------------
(* A delimited-text session: the stream is cut into consecutive chunks     *)
(* (any cut, empty chunks included), then flushed.                         *)

CsvBytes == {"a", ",", "\n", "\""}

\* A call returned r: the parser is updated, the result observed.
CsvReturned(r) ==
    /\ csv' = r.p
    /\ csv_res' = r.res
    /\ csv_out' = csv_out \o r.res.rows

CsvIdle ==
    /\ csv_input = <<>>
    /\ csv = CsvParserNew(FALSE)
    /\ csv_fed = 0
    /\ csv_out = <<>>
    /\ csv_res = CsvResult(csv, <<>>)
    /\ csv_pc = "idle"

CsvInit ==
    /\ csv_input \in BoundedSeq(CsvBytes, MaxCsvLen)
    /\ \E h \in BOOLEAN : csv = CsvParserNew(h)
    /\ csv_fed = 0
    /\ csv_out = <<>>
    /\ csv_res = CsvResult(csv, <<>>)
    /\ csv_pc = "open"

CsvFeed ==
    /\ csv_pc = "open"
    /\ \E n \in 0..(Len(csv_input) - csv_fed) :
         /\ CsvReturned(CsvParseChunk(csv, SubSeq(csv_input, csv_fed + 1, csv_fed + n)))
         /\ csv_fed' = csv_fed + n
    /\ UNCHANGED <<csv_input, csv_pc>>
    /\ UNCHANGED <<jsVars, colVars, profVars, catVars, twinVars, longVars, corVars, uniVars, piiVars, detVars, blkVars, sesVars, pdVars, rsvVars, flVars, rfVars, exVars>>

CsvFinish ==
    /\ csv_pc = "open"
    /\ csv_fed = Len(csv_input)
    /\ CsvReturned(CsvFlush(csv))
    /\ csv_pc' = "flushed"
    /\ UNCHANGED <<csv_input, csv_fed>>
    /\ UNCHANGED <<jsVars, colVars, profVars, catVars, twinVars, longVars, corVars, uniVars, piiVars, detVars, blkVars, sesVars, pdVars, rsvVars, flVars, rfVars, exVars>>

CsvFlushAgain ==
    /\ csv_pc = "flushed"
    /\ CsvReturned(CsvFlush(csv))
    /\ csv_pc' = "reflushed"
    /\ UNCHANGED <<csv_input, csv_fed>>
    /\ UNCHANGED <<jsVars, colVars, profVars, catVars, twinVars, longVars, corVars, uniVars, piiVars, detVars, blkVars, sesVars, pdVars, rsvVars, flVars, rfVars, exVars>>

-----------------------------------------------------------------------------
(* A JSON session.  The stream is a framed sequence of record texts (an    *)
(* array, or one record per line) followed by a tail; the format is        *)
(* declared with set_format or left to auto-detection.  The stream is cut  *)
(* into consecutive chunks (any cut), then flushed.                        *)

JsonRecordTexts ==
    { <<"1">>,
      <<"{", "\"", "a", "\"", ":", "1", "}">>,
      <<"}">>,
      <<"\"", Utf8Lead, Utf8Cont, "\"">> }

JsonTails == { <<>>, <<"[", "1", "]">> }

RECURSIVE JoinWith(_, _)
JoinWith(parts, sep) ==
    IF parts = <<>> THEN <<>>
    ELSE IF Len(parts) = 1 THEN parts[1]
    ELSE parts[1] \o sep \o JoinWith(Tail(parts), sep)

JsonRender(src) ==
    IF src.framing = "array"
    THEN <<"[">> \o JoinWith(src.records, <<",">>) \o <<"]">> \o src.tail
    ELSE JoinWith(src.records, <<"\n">>)

\* the configuration the host passes: the defaults, or a key cap of MaxKeys
JsonConfigs ==
    { JsonParserConfigDefault,
      [JsonParserConfigDefault EXCEPT !.max_keys_per_object = MaxKeys] }

JsonSources ==
    [framing : {"array"}, records : BoundedSeq(JsonRecordTexts, MaxJsonRecords),
     tail : JsonTails, declared : BOOLEAN, config : JsonConfigs]
    \cup
    [framing : {"lines"}, records : BoundedSeq(JsonRecordTexts, MaxJsonRecords),
     tail : {<<>>}, declared : BOOLEAN, config : JsonConfigs]

set_format(p, format) == [p EXCEPT !.format = format]

\* A call returned r: the parser is updated, the result observed.
JsonReturned(r) ==
    /\ js' = r.p
    /\ js_res' = r.res
    /\ js_out' = js_out \o r.res.rows
    /\ js_closed' = (js_closed \/ r.closed)
    /\ js_first' = IF js_first = <<>> THEN r.res.headers ELSE js_first

JsonIdle ==
    /\ js_src = [framing |-> "lines", records |-> <<>>, tail |-> <<>>,
                 declared |-> FALSE, config |-> JsonParserConfigDefault]
    /\ js_input = <<>>
    /\ js = JsonParserNew(JsonParserConfigDefault)
    /\ js_fed = 0
    /\ js_out = <<>>
    /\ js_res = JsonResult(js, <<>>)
    /\ js_closed = FALSE
    /\ js_first = <<>>
    /\ js_pc = "idle"

\* The parser of a session before its first chunk.
JsonStart(src) ==
    IF src.declared
    THEN set_format(JsonParserNew(src.config),
                    IF src.framing = "array" THEN "JsonArray" ELSE "JsonLines")
    ELSE JsonParserNew(src.config)

JsonInit ==
    /\ js_src \in JsonSources
    /\ js_input = JsonRender(js_src)
    /\ js = JsonStart(js_src)
    /\ js_fed = 0
    /\ js_out = <<>>
    /\ js_res = JsonResult(js, <<>>)
    /\ js_closed = FALSE
    /\ js_first = <<>>
    /\ js_pc = "open"

JsonFeed ==
    /\ js_pc = "open"
    /\ \E n \in 0..(Len(js_input) - js_fed) :
         /\ JsonReturned(JsonParseChunk(js, SubSeq(js_input, js_fed + 1, js_fed + n)))
         /\ js_fed' = js_fed + n
    /\ UNCHANGED <<js_input, js_pc, js_src>>
    /\ UNCHANGED <<csvVars, colVars, profVars, catVars, twinVars, longVars, corVars, uniVars, piiVars, detVars, blkVars, sesVars, pdVars, rsvVars, flVars, rfVars, exVars>>

JsonFinish ==
    /\ js_pc = "open"
    /\ js_fed = Len(js_input)
    /\ JsonReturned(JsonFlush(js))
    /\ js_pc' = "flushed"
    /\ UNCHANGED <<js_input, js_fed, js_src>>
    /\ UNCHANGED <<csvVars, colVars, profVars, catVars, twinVars, longVars, corVars, uniVars, piiVars, detVars, blkVars, sesVars, pdVars, rsvVars, flVars, rfVars, exVars>>

JsonFlushAgain ==
    /\ js_pc = "flushed"
    /\ JsonReturned(JsonFlush(js))
    /\ js_pc' = "reflushed"
    /\ UNCHANGED <<js_input, js_fed, js_src>>
    /\ UNCHANGED <<csvVars, colVars, profVars, catVars, twinVars, longVars, corVars, uniVars, piiVars, detVars, blkVars, sesVars, pdVars, rsvVars, flVars, rfVars, exVars>>

-----------------------------------------------------------------------------
(* One call of detect_pii_pattern_with_column_name on up to MaxSamples     *)
(* sampled cells and an optional column name.                              *)

PatternCells ==
    { <<"1", "2", "3", "-", "4", "5", "-", "6", "7", "8", "9">>, <<"1", "2", "3", "4", "5", "6", "7", "8", "1", "2", "3", "4", "5", "6", "7", "8">>, <<"a", "@", "b", ".", "c", "o">>, <<"1", ".", "2", ".", "3", ".", "4">>,
      <<"1", "9", "9", "0", "-", "0", "5", "-", "1", "5">>, <<"1", "2", "3", "4", "5">>, <<"x", "y">> }

PatternNames == { None, Some(<<"c">>), Some(<<"z", "i", "p">>), Some(<<"d", "o", "b">>), Some(<<"e", "m", "a", "i", "l">>) }

PatternIdle ==
    /\ pd_in = [values |-> <<>>, column_name |-> None]
    /\ pd_out = None

PatternInit ==
    /\ pd_in \in [values : BoundedSeq(PatternCells, MaxSamples), column_name : PatternNames]
    /\ pd_out = None

PatternCall ==
    /\ pd_out = None
    /\ pd_out' = Some(detect_pii_pattern_with_column_name(pd_in.values, pd_in.column_name))
    /\ UNCHANGED pd_in

-----------------------------------------------------------------------------
(* One HistogramAccumulator of a column fed up to MaxObserved numbers, the *)
(* k-th of them being the number k, by a build for wasm32 or for a 64-bit  *)
(* target.                                                                 *)

UsizeBits == {32, 64}

ReservoirIdle ==
    /\ rsv = HistogramAccumulatorNew(HistMaxSamples)
    /\ rsv_bits = 0

ReservoirInit ==
    /\ rsv = HistogramAccumulatorNew(HistMaxSamples)
    /\ rsv_bits \in UsizeBits

ReservoirUpdate ==
    /\ rsv_bits \in UsizeBits
    /\ rsv.count < MaxObserved
    /\ rsv' = HistogramAccumulatorUpdateOn(rsv_bits, rsv, rsv.count + 1)
    /\ UNCHANGED rsv_bits

-----------------------------------------------------------------------------
(* One JsonParser handed up to MaxFlattened parsed records: objects nested *)
(* up to three deep, a flat object, a number.  The host sets the depth cap *)
(* and the key cap.                                                        *)

FlattenTexts ==
    { <<"{", "\"", "a", "\"", ":", "{", "\"", "b", "\"", ":", "{", "\"", "c", "\"", ":", "1", "}", "}", "}">>, <<"{", "\"", "a", "\"", ":", "{", "\"", "b", "\"", ":", "2", "}", "}">>, <<"{", "\"", "a", "\"", ":", "1", "}">>, <<"{", "\"", "d", "\"", ":", "1", "}">>, <<"1">> }

FlattenConfigs ==
    [max_nested_depth : {0, 1, 3}, max_keys_per_object : {MaxKeys, 500}]

FlattenIdle ==
    /\ fl = JsonParserNew(JsonParserConfigDefault)
    /\ fl_recs = <<>>
    /\ fl_rows = <<>>

FlattenInit ==
    /\ \E config \in FlattenConfigs : fl = JsonParserNew(config)
    /\ fl_recs = <<>>
    /\ fl_rows = <<>>

FlattenReturned(acc) ==
    /\ fl' = acc.p
    /\ fl_rows' = fl_rows \o acc.rows

\* one turn of the loop of a parse call: from_str on the text of a record,
\* then update_structure, flatten_value and the push of the row
FlattenRecord ==
    /\ Len(fl_recs) < MaxFlattened
    /\ \E text \in FlattenTexts :
         /\ FlattenReturned(ParseItem([p |-> fl, rows |-> <<>>, closed |-> FALSE], text))
         /\ fl_recs' = Append(fl_recs, text)

-----------------------------------------------------------------------------
(* One Profiler of a single column, fed row by row and then finalized      *)
(* twice.  Its categorical maps are not touched between the two calls, so  *)
(* both calls read them in the same order.                                 *)

RefinalizeHeaders == << <<"x">> >>

RefinalizeRows == { << <<"1">> >>, << <<"a">> >>, << <<>> >> }

RefinalizeIdle ==
    /\ rf = ProfilerNew(<<>>)
    /\ rf_rows = <<>>
    /\ rf_orders = None
    /\ rf_reports = <<>>

RefinalizeInit ==
    /\ rf = ProfilerNew(RefinalizeHeaders)
    /\ rf_rows = <<>>
    /\ rf_orders = None
    /\ rf_reports = <<>>

RefinalizeUpdate ==
    /\ rf_reports = <<>>
    /\ Len(rf_rows) < MaxRows
    /\ \E row \in RefinalizeRows :
         /\ rf' = update_batch(rf, <<row>>)
         /\ rf_rows' = Append(rf_rows, row)
    /\ UNCHANGED <<rf_orders, rf_reports>>

RefinalizeReturned(f) ==
    /\ rf' = f.p
    /\ rf_reports' = Append(rf_reports, f.res)

RefinalizeFirst ==
    /\ rf_reports = <<>>
    /\ \E orders \in ProfilerOrders(rf) :
         /\ RefinalizeReturned(ProfilerFinalize(rf, orders))
         /\ rf_orders' = Some(orders)
    /\ UNCHANGED rf_rows

RefinalizeAgain ==
    /\ Len(rf_reports) = 1
    /\ RefinalizeReturned(ProfilerFinalize(rf, rf_orders[1]))
    /\ UNCHANGED <<rf_rows, rf_orders>>

-----------------------------------------------------------------------------
(* One column fed cell by cell, finalized and then converted for the       *)
(* exported report.                                                        *)

ExportNames == { <<"c">>, <<"Z", "i", "p">> }

ExportCells == { <<>>, <<"1">>, <<"2">>, <<"x">> }

ExportIdle ==
    /\ ex_col = ColumnProfileNew(<<>>)
    /\ ex_pc = "idle"
    /\ ex_out = None

ExportInit ==
    /\ \E name \in ExportNames : ex_col = ColumnProfileNew(name)
    /\ ex_pc = "open"
    /\ ex_out = None

ExportUpdate ==
    /\ ex_pc = "open"
    /\ ex_col.count < MaxCells
    /\ \E value \in ExportCells :
         ex_col' = ColumnProfileUpdate(ex_col, value, ex_col.count + 1)
    /\ UNCHANGED <<ex_pc, ex_out>>

ExportFinalize ==
    /\ ex_pc = "open"
    /\ \E order \in HashOrders(ex_col.cat_acc) :
         ex_col' = ColumnProfileFinalize(ex_col, order)
    /\ ex_pc' = "finalized"
    /\ UNCHANGED ex_out

ExportConvert ==
    /\ ex_pc = "finalized"
    /\ ex_out = None
    /\ ex_out' = Some(convert_column(ex_col))
    /\ UNCHANGED <<ex_col, ex_pc>>

-----------------------------------------------------------------------------
(* The parser sessions: one delimited-text session or one JSON session.    *)

ParsersInit ==
    /\ (CsvInit /\ JsonIdle) \/ (CsvIdle /\ JsonInit)
    /\ ColumnIdle /\ ProfilerIdle /\ CategoricalIdle /\ TwinsIdle /\ LongIdle
    /\ CorrelationIdle /\ UniquenessIdle /\ PiiIdle /\ DetectIdle /\ BlockIdle /\ SessionIdle /\ PatternIdle /\ ReservoirIdle /\ FlattenIdle /\ RefinalizeIdle /\ ExportIdle

ParsersNext == CsvFeed \/ CsvFinish \/ JsonFeed \/ JsonFinish

SpecParsers == ParsersInit /\ [][ParsersNext]_vars

\* The same sessions with a second flush right after the first.
FlushTwiceNext == ParsersNext \/ CsvFlushAgain \/ JsonFlushAgain

SpecFlushTwice == ParsersInit /\ [][FlushTwiceNext]_vars

-----------------------------------------------------------------------------
(* The ingestion sessions (lib.rs): DataCertProfiler over a CsvParser and  *)
(* JsonProfiler over a JsonParser.  finalize may come at any time.         *)

DataCertChunk ==
    /\ csv_pc = "open"
    /\ \E n \in 0..(Len(csv_input) - csv_fed) :
         /\ CsvReturned(CsvParseChunk(csv, SubSeq(csv_input, csv_fed + 1, csv_fed + n)))
         /\ csv_fed' = csv_fed + n
    /\ ses_profiler' = ProfileChunk(ses_profiler, csv_res')
    /\ UNCHANGED <<csv_input, csv_pc, ses_result>>
    /\ UNCHANGED <<jsVars, colVars, profVars, catVars, twinVars, longVars, corVars, uniVars, piiVars, detVars, blkVars, pdVars, rsvVars, flVars, rfVars, exVars>>

DataCertFinalize ==
    /\ csv_pc = "open"
    /\ CsvReturned(CsvFlush(csv))
    /\ \E orders \in SessionOrders(ProfileRows(ses_profiler, csv_res'.rows)) :
         SessionFinalized(SessionFinalize(ProfileRows(ses_profiler, csv_res'.rows),
                                          orders))
    /\ csv_pc' = "flushed"
    /\ UNCHANGED <<csv_input, csv_fed>>
    /\ UNCHANGED <<jsVars, colVars, profVars, catVars, twinVars, longVars, corVars, uniVars, piiVars, detVars, blkVars, pdVars, rsvVars, flVars, rfVars, exVars>>

JsonProfilerChunk ==
    /\ js_pc = "open"
    /\ \E n \in 0..(Len(js_input) - js_fed) :
         /\ JsonReturned(JsonParseChunk(js, SubSeq(js_input, js_fed + 1, js_fed + n)))
         /\ js_fed' = js_fed + n
    /\ ses_profiler' = ProfileChunk(ses_profiler, js_res')
    /\ UNCHANGED <<js_input, js_pc, js_src, ses_result>>
    /\ UNCHANGED <<csvVars, colVars, profVars, catVars, twinVars, longVars, corVars, uniVars, piiVars, detVars, blkVars, pdVars, rsvVars, flVars, rfVars, exVars>>

JsonProfilerFinalize ==
    /\ js_pc = "open"
    /\ JsonReturned(JsonFlush(js))
    /\ \E orders \in SessionOrders(ProfileRows(ses_profiler, js_res'.rows)) :
         SessionFinalized(SessionFinalize(ProfileRows(ses_profiler, js_res'.rows),
                                          orders))
    /\ js_pc' = "flushed"
    /\ UNCHANGED <<js_input, js_fed, js_src>>
    /\ UNCHANGED <<csvVars, colVars, profVars, catVars, twinVars, longVars, corVars, uniVars, piiVars, detVars, blkVars, pdVars, rsvVars, flVars, rfVars, exVars>>

\* JsonProfiler has no set_format: the format is always auto-detected.
JsonProfilerInit ==
    /\ JsonInit
    /\ ~js_src.declared

SessionsInit ==
    /\ (CsvInit /\ JsonIdle) \/ (CsvIdle /\ JsonProfilerInit)
    /\ ColumnIdle /\ ProfilerIdle /\ CategoricalIdle /\ TwinsIdle /\ LongIdle
    /\ CorrelationIdle /\ UniquenessIdle /\ PiiIdle /\ DetectIdle /\ BlockIdle /\ SessionIdle /\ PatternIdle /\ ReservoirIdle /\ FlattenIdle /\ RefinalizeIdle /\ ExportIdle

SessionsNext ==
    DataCertChunk \/ DataCertFinalize \/ JsonProfilerChunk \/ JsonProfilerFinalize

SpecSessions == SessionsInit /\ [][SessionsNext]_vars

-----------------------------------------------------------------------------
(* The statistics on their own *)

ColumnSpecInit ==
    /\ CsvIdle /\ JsonIdle /\ ProfilerIdle /\ CategoricalIdle /\ TwinsIdle /\ LongIdle
    /\ CorrelationIdle /\ UniquenessIdle /\ PiiIdle /\ DetectIdle /\ BlockIdle /\ SessionIdle /\ PatternIdle /\ ReservoirIdle /\ FlattenIdle /\ RefinalizeIdle /\ ExportIdle
    /\ ColumnInit

ColumnNext ==
    \/ ColumnUpdate /\ UNCHANGED <<csvVars, jsVars, profVars, catVars, twinVars, longVars, corVars, uniVars, piiVars, detVars, blkVars, sesVars, pdVars, rsvVars, flVars, rfVars, exVars>>
    \/ ColumnFinalize /\ UNCHANGED <<csvVars, jsVars, profVars, catVars, twinVars, longVars, corVars, uniVars, piiVars, detVars, blkVars, sesVars, pdVars, rsvVars, flVars, rfVars, exVars>>

SpecColumn == ColumnSpecInit /\ [][ColumnNext]_vars

CategoricalSpecInit ==
    /\ CsvIdle /\ JsonIdle /\ ColumnIdle /\ ProfilerIdle /\ TwinsIdle /\ LongIdle
    /\ CorrelationIdle /\ UniquenessIdle /\ PiiIdle /\ DetectIdle /\ BlockIdle /\ SessionIdle /\ PatternIdle /\ ReservoirIdle /\ FlattenIdle /\ RefinalizeIdle /\ ExportIdle
    /\ CategoricalInit

CategoricalNext ==
    \/ CategoricalUpdate /\ UNCHANGED <<csvVars, jsVars, colVars, profVars, twinVars, longVars, corVars, uniVars, piiVars, detVars, blkVars, sesVars, pdVars, rsvVars, flVars, rfVars, exVars>>
    \/ CategoricalFinish /\ UNCHANGED <<csvVars, jsVars, colVars, profVars, twinVars, longVars, corVars, uniVars, piiVars, detVars, blkVars, sesVars, pdVars, rsvVars, flVars, rfVars, exVars>>

SpecCategorical == CategoricalSpecInit /\ [][CategoricalNext]_vars

TwinsSpecInit ==
    /\ CsvIdle /\ JsonIdle /\ ColumnIdle /\ ProfilerIdle /\ CategoricalIdle
    /\ LongIdle /\ CorrelationIdle /\ UniquenessIdle /\ PiiIdle /\ DetectIdle /\ BlockIdle /\ SessionIdle /\ PatternIdle /\ ReservoirIdle /\ FlattenIdle /\ RefinalizeIdle /\ ExportIdle
    /\ TwinsInit

TwinsNext ==
    \/ TwinsUpdateBatch
         /\ UNCHANGED <<csvVars, jsVars, colVars, profVars, catVars, longVars, corVars,
                       uniVars, piiVars, detVars, blkVars, sesVars, pdVars, rsvVars, flVars, rfVars, exVars>>
    \/ TwinsFinish
         /\ UNCHANGED <<csvVars, jsVars, colVars, profVars, catVars, longVars, corVars,
                       uniVars, piiVars, detVars, blkVars, sesVars, pdVars, rsvVars, flVars, rfVars, exVars>>

SpecTwins == TwinsSpecInit /\ [][TwinsNext]_vars

LongSpecInit ==
    /\ CsvIdle /\ JsonIdle /\ ColumnIdle /\ ProfilerIdle /\ CategoricalIdle
    /\ TwinsIdle /\ CorrelationIdle /\ UniquenessIdle /\ PiiIdle /\ DetectIdle /\ BlockIdle /\ SessionIdle /\ PatternIdle /\ ReservoirIdle /\ FlattenIdle /\ RefinalizeIdle /\ ExportIdle
    /\ LongInit

LongNext ==
    \/ LongFill
         /\ UNCHANGED <<csvVars, jsVars, colVars, profVars, catVars, twinVars, corVars,
                       uniVars, piiVars, detVars, blkVars, sesVars, pdVars, rsvVars, flVars, rfVars, exVars>>
    \/ LongUpdate
         /\ UNCHANGED <<csvVars, jsVars, colVars, profVars, catVars, twinVars, corVars,
                       uniVars, piiVars, detVars, blkVars, sesVars, pdVars, rsvVars, flVars, rfVars, exVars>>

SpecLong == LongSpecInit /\ [][LongNext]_vars

CorrelationSpecInit ==
    /\ CsvIdle /\ JsonIdle /\ ColumnIdle /\ ProfilerIdle /\ CategoricalIdle
    /\ TwinsIdle /\ LongIdle /\ UniquenessIdle /\ PiiIdle /\ DetectIdle /\ BlockIdle /\ SessionIdle /\ PatternIdle /\ ReservoirIdle /\ FlattenIdle /\ RefinalizeIdle /\ ExportIdle
    /\ CorrelationInit

CorrelationNext ==
    \/ CorrelationBatch
         /\ UNCHANGED <<csvVars, jsVars, colVars, profVars, catVars, twinVars, longVars,
                       uniVars, piiVars, detVars, blkVars, sesVars, pdVars, rsvVars, flVars, rfVars, exVars>>
    \/ CorrelationFinish
         /\ UNCHANGED <<csvVars, jsVars, colVars, profVars, catVars, twinVars, longVars,
                       uniVars, piiVars, detVars, blkVars, sesVars, pdVars, rsvVars, flVars, rfVars, exVars>>

SpecCorrelation == CorrelationSpecInit /\ [][CorrelationNext]_vars

UniquenessSpecInit ==
    /\ CsvIdle /\ JsonIdle /\ ColumnIdle /\ ProfilerIdle /\ CategoricalIdle
    /\ TwinsIdle /\ LongIdle /\ CorrelationIdle /\ PiiIdle /\ DetectIdle /\ BlockIdle /\ SessionIdle /\ PatternIdle /\ ReservoirIdle /\ FlattenIdle /\ RefinalizeIdle /\ ExportIdle
    /\ UniquenessInit

UniquenessNext ==
    UniquenessCall
        /\ UNCHANGED <<csvVars, jsVars, colVars, profVars, catVars, twinVars, longVars,
                      corVars, piiVars, detVars, blkVars, sesVars, pdVars, rsvVars, flVars, rfVars, exVars>>

SpecUniqueness == UniquenessSpecInit /\ [][UniquenessNext]_vars

PiiSpecInit ==
    /\ CsvIdle /\ JsonIdle /\ ColumnIdle /\ ProfilerIdle /\ CategoricalIdle /\ TwinsIdle
    /\ LongIdle /\ CorrelationIdle /\ UniquenessIdle /\ DetectIdle /\ BlockIdle /\ SessionIdle /\ PatternIdle /\ ReservoirIdle /\ FlattenIdle /\ RefinalizeIdle /\ ExportIdle
    /\ PiiInit

PiiNext ==
    \/ PiiUpdate
         /\ UNCHANGED <<csvVars, jsVars, colVars, profVars, catVars, twinVars, longVars,
                       corVars, uniVars, detVars, blkVars, sesVars, pdVars, rsvVars, flVars, rfVars, exVars>>
    \/ PiiFinalize
         /\ UNCHANGED <<csvVars, jsVars, colVars, profVars, catVars, twinVars, longVars,
                       corVars, uniVars, detVars, blkVars, sesVars, pdVars, rsvVars, flVars, rfVars, exVars>>

SpecPii == PiiSpecInit /\ [][PiiNext]_vars

DetectSpecInit ==
    /\ CsvIdle /\ JsonIdle /\ ColumnIdle /\ ProfilerIdle /\ CategoricalIdle /\ TwinsIdle
    /\ LongIdle /\ CorrelationIdle /\ UniquenessIdle /\ PiiIdle /\ BlockIdle /\ SessionIdle /\ PatternIdle /\ ReservoirIdle /\ FlattenIdle /\ RefinalizeIdle /\ ExportIdle
    /\ DetectInit

DetectNext ==
    DetectCall
        /\ UNCHANGED <<csvVars, jsVars, colVars, profVars, catVars, twinVars, longVars,
                       corVars, uniVars, piiVars, blkVars, sesVars, pdVars, rsvVars, flVars, rfVars, exVars>>

SpecDetect == DetectSpecInit /\ [][DetectNext]_vars

BlockSpecInit ==
    /\ CsvIdle /\ JsonIdle /\ ColumnIdle /\ ProfilerIdle /\ CategoricalIdle /\ TwinsIdle
    /\ LongIdle /\ CorrelationIdle /\ UniquenessIdle /\ PiiIdle /\ DetectIdle /\ SessionIdle /\ PatternIdle /\ ReservoirIdle /\ FlattenIdle /\ RefinalizeIdle /\ ExportIdle
    /\ BlockInit

BlockNext ==
    BlockParse
        /\ UNCHANGED <<csvVars, jsVars, colVars, profVars, catVars, twinVars, longVars,
                       corVars, uniVars, piiVars, detVars, sesVars, pdVars, rsvVars, flVars, rfVars, exVars>>

SpecBlocks == BlockSpecInit /\ [][BlockNext]_vars

ProfilerSpecInit ==
    /\ CsvIdle /\ JsonIdle /\ ColumnIdle /\ CategoricalIdle /\ TwinsIdle /\ LongIdle
    /\ CorrelationIdle /\ UniquenessIdle /\ PiiIdle /\ DetectIdle /\ BlockIdle /\ SessionIdle /\ PatternIdle /\ ReservoirIdle /\ FlattenIdle /\ RefinalizeIdle /\ ExportIdle
    /\ ProfilerInit

ProfilerNext ==
    \/ ProfilerUpdateBatch /\ UNCHANGED <<csvVars, jsVars, colVars, catVars, twinVars, longVars, corVars, uniVars, piiVars, detVars, blkVars, sesVars, pdVars, rsvVars, flVars, rfVars, exVars>>
    \/ ProfilerFinish /\ UNCHANGED <<csvVars, jsVars, colVars, catVars, twinVars, longVars, corVars, uniVars, piiVars, detVars, blkVars, sesVars, pdVars, rsvVars, flVars, rfVars, exVars>>

SpecProfiler == ProfilerSpecInit /\ [][ProfilerNext]_vars

PatternSpecInit ==
    /\ CsvIdle /\ JsonIdle /\ ColumnIdle /\ ProfilerIdle /\ CategoricalIdle /\ TwinsIdle
    /\ LongIdle /\ CorrelationIdle /\ UniquenessIdle /\ PiiIdle /\ DetectIdle /\ BlockIdle /\ ReservoirIdle /\ FlattenIdle /\ RefinalizeIdle /\ ExportIdle
    /\ SessionIdle
    /\ PatternInit

PatternNext ==
    PatternCall
        /\ UNCHANGED <<csvVars, jsVars, colVars, profVars, catVars, twinVars, longVars,
                       corVars, uniVars, piiVars, detVars, blkVars, sesVars, rsvVars, flVars, rfVars, exVars>>

SpecPatterns == PatternSpecInit /\ [][PatternNext]_vars

ReservoirSpecInit ==
    /\ CsvIdle /\ JsonIdle /\ ColumnIdle /\ ProfilerIdle /\ CategoricalIdle /\ TwinsIdle
    /\ LongIdle /\ CorrelationIdle /\ UniquenessIdle /\ PiiIdle /\ DetectIdle /\ BlockIdle /\ FlattenIdle /\ RefinalizeIdle /\ ExportIdle
    /\ SessionIdle /\ PatternIdle
    /\ ReservoirInit

ReservoirNext ==
    ReservoirUpdate
        /\ UNCHANGED <<csvVars, jsVars, colVars, profVars, catVars, twinVars, longVars,
                       corVars, uniVars, piiVars, detVars, blkVars, sesVars, pdVars, flVars, rfVars, exVars>>

SpecReservoir == ReservoirSpecInit /\ [][ReservoirNext]_vars

FlattenSpecInit ==
    /\ CsvIdle /\ JsonIdle /\ ColumnIdle /\ ProfilerIdle /\ CategoricalIdle /\ TwinsIdle
    /\ LongIdle /\ CorrelationIdle /\ UniquenessIdle /\ PiiIdle /\ DetectIdle /\ BlockIdle
    /\ SessionIdle /\ PatternIdle /\ ReservoirIdle /\ RefinalizeIdle /\ ExportIdle
    /\ FlattenInit

FlattenNext ==
    FlattenRecord
        /\ UNCHANGED <<csvVars, jsVars, colVars, profVars, catVars, twinVars, longVars,
                       corVars, uniVars, piiVars, detVars, blkVars, sesVars, pdVars,
                       rsvVars, rfVars, exVars>>

SpecFlatten == FlattenSpecInit /\ [][FlattenNext]_vars

RefinalizeSpecInit ==
    /\ CsvIdle /\ JsonIdle /\ ColumnIdle /\ ProfilerIdle /\ CategoricalIdle /\ TwinsIdle
    /\ LongIdle /\ CorrelationIdle /\ UniquenessIdle /\ PiiIdle /\ DetectIdle /\ BlockIdle
    /\ SessionIdle /\ PatternIdle /\ ReservoirIdle /\ FlattenIdle /\ ExportIdle
    /\ RefinalizeInit

RefinalizeNext ==
    \/ RefinalizeUpdate
         /\ UNCHANGED <<csvVars, jsVars, colVars, profVars, catVars, twinVars, longVars,
                        corVars, uniVars, piiVars, detVars, blkVars, sesVars, pdVars,
                        rsvVars, flVars, exVars>>
    \/ RefinalizeFirst
         /\ UNCHANGED <<csvVars, jsVars, colVars, profVars, catVars, twinVars, longVars,
                        corVars, uniVars, piiVars, detVars, blkVars, sesVars, pdVars,
                        rsvVars, flVars, exVars>>
    \/ RefinalizeAgain
         /\ UNCHANGED <<csvVars, jsVars, colVars, profVars, catVars, twinVars, longVars,
                        corVars, uniVars, piiVars, detVars, blkVars, sesVars, pdVars,
                        rsvVars, flVars, exVars>>

SpecRefinalize == RefinalizeSpecInit /\ [][RefinalizeNext]_vars

ExportSpecInit ==
    /\ CsvIdle /\ JsonIdle /\ ColumnIdle /\ ProfilerIdle /\ CategoricalIdle /\ TwinsIdle
    /\ LongIdle /\ CorrelationIdle /\ UniquenessIdle /\ PiiIdle /\ DetectIdle /\ BlockIdle
    /\ SessionIdle /\ PatternIdle /\ ReservoirIdle /\ FlattenIdle /\ RefinalizeIdle
    /\ ExportInit

ExportNext ==
    \/ ExportUpdate
         /\ UNCHANGED <<csvVars, jsVars, colVars, profVars, catVars, twinVars, longVars,
                        corVars, uniVars, piiVars, detVars, blkVars, sesVars, pdVars,
                        rsvVars, flVars, rfVars>>
    \/ ExportFinalize
         /\ UNCHANGED <<csvVars, jsVars, colVars, profVars, catVars, twinVars, longVars,
                        corVars, uniVars, piiVars, detVars, blkVars, sesVars, pdVars,
                        rsvVars, flVars, rfVars>>
    \/ ExportConvert
         /\ UNCHANGED <<csvVars, jsVars, colVars, profVars, catVars, twinVars, longVars,
                        corVars, uniVars, piiVars, detVars, blkVars, sesVars, pdVars,
                        rsvVars, flVars, rfVars>>

SpecExport == ExportSpecInit /\ [][ExportNext]_vars

-----------------------------------------------------------------------------
(* Chunk-split invariance *)

WholeResult(a, b) ==
    [rows |-> a.res.rows \o b.res.rows,
     headers |-> b.res.headers,
     malformed_count |-> b.res.malformed_count,
     total_rows |-> b.res.total_rows]

CsvWholeFlush(a) == WholeResult(a, CsvFlush(a.p))

\* The same bytes as one chunk followed by flush, on a fresh parser.
CsvWhole(input, has_headers) ==
    CsvWholeFlush(CsvParseChunk(CsvParserNew(has_headers), input))

JsonWholeFlush(a) == WholeResult(a, JsonFlush(a.p))

JsonWhole(input, src) == JsonWholeFlush(JsonParseChunk(JsonStart(src), input))

SameAsWhole(out, res, w) ==
    /\ out = w.rows
    /\ res.malformed_count = w.malformed_count
    /\ res.total_rows = w.total_rows

\* C1: for any cut of the byte stream into chunks, the rows emitted by the
\* CsvParser parse_chunk calls followed by flush, and the final
\* malformed_count and total_rows, equal those of the single-chunk run over
\* the same bytes.
C1_ChunkSplitInvariance ==
    csv_pc = "flushed" =>
        SameAsWhole(csv_out, csv_res, CsvWhole(csv_input, csv.has_headers))

\* C2: for any cut of the byte stream into chunks, the rows emitted by the
\* JsonParser parse_chunk calls followed by flush, and the final headers,
\* malformed_count and total_rows, equal those of the single-chunk run over
\* the same bytes (array-framed and line-delimited).  Stated for the streams
\* that end with their framed records.
C2_JsonChunkSplitInvariance ==
    (js_pc = "flushed" /\ js_src.tail = <<>>) =>
        /\ SameAsWhole(js_out, js_res, JsonWhole(js_input, js_src))
        /\ js_res.headers = JsonWhole(js_input, js_src).headers

\* C3: in array-framed mode, once the top-level closing ] has been consumed
\* no later call produces a row or changes total_rows, malformed_count or
\* headers.
C3_ClosedStreamIsTerminated ==
    [][js_closed =>
          /\ js_out' = js_out
          /\ js'.total_rows = js.total_rows
          /\ js'.malformed_count = js.malformed_count
          /\ js'.headers = js.headers]_vars

-----------------------------------------------------------------------------
(* Headers over a session *)

IsPrefix(a, b) == Len(a) <= Len(b) /\ SubSeq(b, 1, Len(a)) = a

\* C4: once a result has returned a non-empty headers list, every
\* later result of the session returns exactly the same list.  Stated for
\* the streams that end with their framed records.
C4_HeadersFixed ==
    [][/\ csv_res.headers # <<>> => csv_res'.headers = csv_res.headers
       /\ (js_res.headers # <<>> /\ js_src.tail = <<>>)
             => js_res'.headers = js_res.headers]_vars

\* What does hold of the headers: a later result returns a list that starts
\* with the earlier one; the delimited parser returns the same list, the
\* JSON parser may append newly discovered columns behind it.
HeadersAppendOnly ==
    [][/\ csv_res.headers # <<>> => csv_res'.headers = csv_res.headers
       /\ js_res.headers # <<>> => IsPrefix(js_res.headers, js_res'.headers)]_vars

-----------------------------------------------------------------------------
(* Malformed records *)

ParseableCount(records) ==
    Cardinality({k \in 1..Len(records) : SerdeFromStr(records[k]).ok})

\* C5 (JSON, format declared, nothing behind the framed records): every
\* record that cannot be parsed adds one to malformed_count and yields no
\* row, and every parseable record still yields its row.
C5_JsonRecordAccounting ==
    (js_pc = "flushed" /\ js_src.declared /\ js_src.tail = <<>>) =>
        /\ js.malformed_count = Len(js_src.records) - ParseableCount(js_src.records)
        /\ js.total_rows = ParseableCount(js_src.records)
        /\ Len(js_out) = ParseableCount(js_src.records)

-----------------------------------------------------------------------------
(* Finalize of a session without rows *)

SessionFailed == IsSome(ses_result) /\ ~ses_result[1].ok

\* C6: finalize of a DataCertProfiler or JsonProfiler session fails with the
\* no-data error whenever the parser emitted no row over the session, also
\* when headers were discovered but no data row followed.
C6_NoRowsNoReport ==
    /\ (csv_pc = "flushed" /\ csv_out = <<>>) => SessionFailed
    /\ (js_pc = "flushed" /\ js_out = <<>>) => SessionFailed

-----------------------------------------------------------------------------
(* Duplicate rows *)

EarlierSame(rows, k) == \E j \in 1..(k - 1) : rows[j] = rows[k]

\* C7: after any sequence of process_batch calls, duplicate_count plus the
\* number of distinct rows seen equals total_rows, total_rows is the number
\* of rows processed, and the rows counted as duplicates are exactly those
\* with an identical row earlier in the session.
C7_DuplicateAccounting ==
    /\ prof.duplicate_detector.duplicate_count
         + Cardinality(prof.duplicate_detector.seen_rows)
       = prof.duplicate_detector.total_rows
    /\ prof.duplicate_detector.total_rows = Len(prof_rows)
    /\ prof.duplicate_detector.duplicate_count
       = Cardinality({k \in 1..Len(prof_rows) : EarlierSame(prof_rows, k)})
    /\ prof.duplicate_detector.seen_rows = {prof_rows[k] : k \in 1..Len(prof_rows)}

\* Three rows, the third repeating the first, the second different.
C7_Witness ==
    /\ Len(prof_rows) = 3
    /\ prof_rows[3] = prof_rows[1]
    /\ prof_rows[2] # prof_rows[1]
    /\ prof.duplicate_detector.duplicate_count = 1

-----------------------------------------------------------------------------
(* Column counters *)

\* the cell is not a missing value and reads as a finite number
ReadsFinite(cell) ==
    /\ ~IsMissingValue(Trim(cell))
    /\ ParseF64(Trim(cell)).ok
    /\ F64IsFinite(ParseF64(Trim(cell)).val)

\* C8: after finalize, numeric_stats is present if and only if at least one
\* cell fed to update read as a finite number, and numeric_count counts
\* exactly the cells that read as a finite number.
C8_NumericStatsIffFinite ==
    col_pc = "finalized" =>
        /\ IsSome(col.numeric_stats)
             <=> \E i \in 1..Len(col_cells) : ReadsFinite(col_cells[i])
        /\ col.numeric_count
             = Cardinality({i \in 1..Len(col_cells) : ReadsFinite(col_cells[i])})

\* empty after trimming, or null / n/a in any letter case
MissingCell(cell) ==
    \/ Trim(cell) = <<>>
    \/ ToLowercase(Trim(cell)) \in {<<"n", "u", "l", "l">>, <<"n", "/", "a">>}

\* C9: after any sequence of update calls, missing <= count and
\* count = missing + total_valid, count is the number of cells fed, and the
\* cells classified missing (those whose row index is recorded in
\* missing_rows) are exactly the cells that are empty after trimming or
\* equal null or n/a case-insensitively.
C9_MissingAccounting ==
    /\ col.missing <= col.count
    /\ col.count = col.missing + col.total_valid
    /\ col.count = Len(col_cells)
    /\ col.missing = Len(col.missing_rows)
    /\ {col.missing_rows[k] : k \in 1..Len(col.missing_rows)}
       = {i \in 1..Len(col_cells) : MissingCell(col_cells[i])}

\* A column that was fed a blank cell, an upper-case N/A and a valid cell.
C9_Witness ==
    /\ \E i \in 1..Len(col_cells) : col_cells[i] = <<" ">>
    /\ \E i \in 1..Len(col_cells) : col_cells[i] = <<"N", "/", "A">>
    /\ col.total_valid = 1
    /\ col.missing = 2

-----------------------------------------------------------------------------
(* Row indices *)

StrictlyIncreasing(s) == \A k \in 1..(Len(s) - 1) : s[k] < s[k + 1]

Elements(s) == {s[k] : k \in 1..Len(s)}

\* the rows, by position in the session, that have a cell for column i
RowsWithCell(rows, i) == {r \in 1..Len(rows) : i <= Len(rows[r])}

\* C10: update_batch gives the r-th row received over the session (counted
\* across batches from 1) the row index r for each of its cells: for every
\* column the recorded missing_rows are exactly the positions of the rows
\* whose cell is missing and the recorded pii_rows exactly the positions of
\* the rows whose cell is valid; each missing_rows list is strictly
\* increasing with entries in 1..total_rows, and total_rows is the number of
\* rows received.
C10_RowIndices ==
    /\ prof.total_rows = Len(prof_rows)
    /\ \A i \in 1..Len(prof.column_profiles) :
         /\ StrictlyIncreasing(prof.column_profiles[i].missing_rows)
         /\ StrictlyIncreasing(prof.column_profiles[i].pii_rows)
         /\ Elements(prof.column_profiles[i].missing_rows) \subseteq 1..prof.total_rows
         /\ Elements(prof.column_profiles[i].missing_rows)
            = {r \in RowsWithCell(prof_rows, i) : MissingCell(prof_rows[r][i])}
         /\ Elements(prof.column_profiles[i].pii_rows)
            = {r \in RowsWithCell(prof_rows, i) : ~MissingCell(prof_rows[r][i])}

\* Three rows received, the second column missing in the first and the
\* third, the second row too short to have a second cell.
C10_Witness ==
    /\ Len(prof_rows) = 3
    /\ Len(prof_rows[2]) = 1
    /\ prof.column_profiles[2].missing_rows = <<1, 3>>
    /\ prof.total_rows = 3

-----------------------------------------------------------------------------
(* Rows shorter or longer than the headers *)

\* the profile of column i after rows r.. of the session, from profile c:
\* only the rows that have a cell for the column touch it
RECURSIVE ColumnAfter(_, _, _, _)
ColumnAfter(c, rows, i, r) ==
    IF r > Len(rows) THEN c
    ELSE ColumnAfter(IF i <= Len(rows[r])
                     THEN ColumnProfileUpdate(c, rows[r][i], r) ELSE c,
                     rows, i, r + 1)

\* column i is c, finalized if the profiler is
ColumnIs(i, c) ==
    IF prof_pc = "finalized"
    THEN \E order \in HashOrders(c.cat_acc) :
             prof.column_profiles[i] = ColumnProfileFinalize(c, order)
    ELSE prof.column_profiles[i] = c

ColumnAsExpected(i) ==
    ColumnIs(i, ColumnAfter(ColumnProfileNew(prof.headers[i]), prof_rows, i, 1))

\* C11: in update_batch the cells of a row beyond the headers change no
\* column profile, and a row with fewer cells than headers leaves every
\* trailing column profile completely unchanged (its count is not
\* incremented): each column profile is what the cells of its own column,
\* in the rows that have one, make of it; total_rows and the duplicate
\* detector count every row.
C11_RaggedRows ==
    /\ Len(prof.column_profiles) = Len(prof.headers)
    /\ \A i \in 1..Len(prof.column_profiles) :
         /\ ColumnAsExpected(i)
         /\ prof.column_profiles[i].count
            = Cardinality({r \in 1..Len(prof_rows) : i <= Len(prof_rows[r])})
    /\ prof.total_rows = Len(prof_rows)
    /\ prof.duplicate_detector.total_rows = Len(prof_rows)

\* A short row and a long row were received: the second column counted
\* fewer cells than rows.
C11_Witness ==
    /\ \E r \in 1..Len(prof_rows) : Len(prof_rows[r]) < Len(prof.headers)
    /\ \E r \in 1..Len(prof_rows) : Len(prof_rows[r]) > Len(prof.headers)
    /\ prof.column_profiles[2].count = 1
    /\ prof.total_rows = 3

-----------------------------------------------------------------------------
(* Content-structure detection *)

ItemCategory(text) ==
    IF SerdeFromStr(text).val.t = "obj" THEN "objects"
    ELSE IF SerdeFromStr(text).val.t = "arr" THEN "arrays"
    ELSE "primitives"

StructureCategory(structure) ==
    IF structure \in {"ArrayOfObjects", "NewlineDelimitedObjects"} THEN "objects"
    ELSE IF structure = "ArrayOfArrays" THEN "arrays"
    ELSE IF structure = "ArrayOfPrimitives" THEN "primitives"
    ELSE IF structure = "MixedArray" THEN "mixed"
    ELSE "unknown"

\* the state of the machine of the claim after the first n items
ExpectedCategory(records, n) ==
    IF n = 0 THEN "unknown"
    ELSE IF \A k \in 1..n : ItemCategory(records[k]) = ItemCategory(records[1])
    THEN ItemCategory(records[1])
    ELSE "mixed"

AllParseable(records) == ParseableCount(records) = Len(records)

\* C12: content-structure detection is a state machine: the first parsed
\* item sets the state from unknown to its category, a later item of a
\* different category moves it to mixed, and mixed is absorbing, for
\* array-framed and line-delimited streams alike.  Stated for the streams
\* of a declared format whose records all parse and that end with their
\* framed records.
C12_StructureMachine ==
    (js_pc # "idle" /\ js_src.declared /\ js_src.tail = <<>>
       /\ AllParseable(js_src.records))
    => StructureCategory(js.structure)
         = ExpectedCategory(js_src.records, js.total_rows)

-----------------------------------------------------------------------------
(* The categorical accumulator *)

KeysOf(c) == DOMAIN c.counts

OtherCountsKept(c, d, value) ==
    \A k \in KeysOf(c) \ {value} : k \in KeysOf(d) /\ d.counts[k] = c.counts[k]

\* what the claim says of one update of c with value, giving d
CappedUpdate(c, d, value) ==
    /\ Cardinality(KeysOf(d)) <= c.max_unique
    /\ Cardinality(KeysOf(d)) >= Cardinality(KeysOf(c))
    /\ OtherCountsKept(c, d, value)
    /\ value \in KeysOf(c)
         => KeysOf(d) = KeysOf(c) /\ d.counts[value] = c.counts[value] + 1
    /\ (value \notin KeysOf(c) /\ Cardinality(KeysOf(c)) >= c.max_unique)
         => d.counts = c.counts
    /\ (value \notin KeysOf(c) /\ Cardinality(KeysOf(c)) < c.max_unique)
         => KeysOf(d) = KeysOf(c) \cup {value} /\ d.counts[value] = 1

\* C13: the categorical accumulator never holds more than its cap of
\* distinct keys and the number of keys never decreases; once the cap is
\* reached a value not already present is dropped (no key added, no count
\* changed) while a value already present has its count incremented by one.
C13_CategoricalCap ==
    [][cat_vals' # cat_vals
         => CappedUpdate(cat, cat', cat_vals'[Len(cat_vals')])]_vars

\* The cap is reached, the last value fed was dropped and a value already
\* present was counted again after the cap was reached.
C13_Witness ==
    /\ Cardinality(KeysOf(cat)) = cat.max_unique
    /\ Len(cat_vals) = MaxCatUpdates
    /\ cat_vals[Len(cat_vals)] \notin KeysOf(cat)
    /\ cat_vals[Len(cat_vals) - 1] = cat_vals[1]
    /\ cat_vals[2] # cat_vals[1]

-----------------------------------------------------------------------------
(* The top values *)

FirstFed(vals, value) == CHOOSE i \in 1..Len(vals) :
    vals[i] = value /\ \A j \in 1..(i - 1) : vals[j] # value

\* top is ordered by count descending, equal counts by first insertion
TopOrdered(top, vals) ==
    \A i, j \in 1..Len(top) :
        i < j =>
            \/ top[i].count > top[j].count
            \/ /\ top[i].count = top[j].count
               /\ FirstFed(vals, top[i].value) < FirstFed(vals, top[j].value)

\* C14: finalize returns at most 10 entries, one per key with its count,
\* sorted by count descending, and among entries with equal counts the one
\* whose value was inserted first comes first.
C14_TopValuesOrder ==
    cat_pc = "finalized" =>
        /\ Len(cat_stats[1].top_values) <= TopValuesLimit
        /\ Len(cat_stats[1].top_values) = MinOf(TopValuesLimit, Cardinality(KeysOf(cat)))
        /\ \A i \in 1..Len(cat_stats[1].top_values) :
             /\ cat_stats[1].top_values[i].value \in KeysOf(cat)
             /\ cat_stats[1].top_values[i].count
                = cat.counts[cat_stats[1].top_values[i].value]
        /\ TopOrdered(cat_stats[1].top_values, cat_vals)

-----------------------------------------------------------------------------
(* Two sessions fed the same rows *)

SameColumnResult(c, d) ==
    /\ c.missing_rows = d.missing_rows
    /\ c.pii_rows = d.pii_rows
    /\ c.hist_acc = d.hist_acc
    /\ c.distinct_estimate = d.distinct_estimate
    /\ c.categorical_stats = d.categorical_stats

\* C15: two sessions fed the same sequence of rows produce identical
\* results: for every column the same row indices, reservoir contents,
\* top-K entries in the same order and the same distinct_estimate.
C15_SameRowsSameResult ==
    twin_pc = "finalized" =>
        /\ twin_res[1].a.total_rows = twin_res[1].b.total_rows
        /\ \A i \in 1..Len(twin_res[1].a.column_profiles) :
             SameColumnResult(twin_res[1].a.column_profiles[i],
                              twin_res[1].b.column_profiles[i])

-----------------------------------------------------------------------------
\* C16: after any sequence of updates a column keeps within its memory
\* bounds: at most 1000 keys in the categorical map, at most 1000 values in
\* the reservoir, at most 100 PII samples, at most 5 display sample values
\* and these pairwise different, and at most 1000 entries in each of
\* missing_rows, pii_rows and outlier_rows.
Distinct(s) == \A i, j \in 1..Len(s) : s[i] = s[j] => i = j

WithinMemoryBounds(p) ==
    /\ Cardinality(DOMAIN p.cat_acc.counts) <= 1000
    /\ IsSome(p.hist_acc) => Len(p.hist_acc[1].samples) <= 1000
    /\ Len(p.pii_samples) <= 100
    /\ Len(p.sample_values) <= 5
    /\ Distinct(p.sample_values)
    /\ Len(p.missing_rows) <= 1000
    /\ Len(p.pii_rows) <= 1000
    /\ Len(p.outlier_rows) <= 1000

C16_MemoryBounds == long_pc # "idle" => WithinMemoryBounds(long)

\* more than 1000 different values, all of them numbers, went in, and the
\* map, the reservoir, the PII samples and the display samples are full
C16_Witness ==
    /\ long_fill = "numbers"
    /\ Cardinality(long.hll) > 1001
    /\ long.numeric_count > 1001
    /\ Cardinality(DOMAIN long.cat_acc.counts) = 1000
    /\ Len(long.hist_acc[1].samples) = 1000
    /\ Len(long.pii_samples) = 100
    /\ Len(long.sample_values) = 5

\* more than 1000 missing cells went in and missing_rows is full
MissingRowsFull ==
    /\ long_fill = "missing"
    /\ long.missing > 1000
    /\ Len(long.missing_rows) = 1000

-----------------------------------------------------------------------------
(* Type resolution *)

\* the inference category of a valid cell, tried in the order of
\* infer_and_update; a cell that reads as an integer is counted as
\* numeric too
CellCategory(cell) ==
    IF ParseI64Ok(Trim(cell)) THEN "integer"
    ELSE IF ParseF64(Trim(cell)).ok THEN "numeric"
    ELSE IF IsBooleanWord(ToLowercase(Trim(cell))) THEN "boolean"
    ELSE IF is_date(Trim(cell)) THEN "date"
    ELSE "none"

ValidCategories ==
    {CellCategory(col_cells[i]) : i \in {k \in 1..Len(col_cells) : ~MissingCell(col_cells[k])}}

NumericCells ==
    {i \in 1..Len(col_cells) :
        /\ ~MissingCell(col_cells[i])
        /\ CellCategory(col_cells[i]) \in {"integer", "numeric"}}

MajorityType ==
    IF ValidCategories = {} THEN "Null"
    ELSE IF ValidCategories = {"integer"} THEN "Integer"
    ELSE IF ValidCategories \subseteq {"integer", "numeric"} THEN "Numeric"
    ELSE IF ValidCategories = {"boolean"} THEN "Boolean"
    ELSE IF ValidCategories = {"date"} THEN "Date"
    ELSE "String"

-----------------------------------------------------------------------------
(* Correlation *)

\* a / b > c / d for a, c >= 0 and b, d > 0, by the continued fractions
RECURSIVE RatGt(_, _, _, _)
RatGt(a, b, c, d) ==
    IF a \div b # c \div d THEN a \div b > c \div d
    ELSE IF a % b = 0 THEN FALSE
    ELSE IF c % d = 0 THEN TRUE
    ELSE RatGt(d, c % d, b, a % b)

\* sq > c / d for a finite value sq >= 0
SquareAbove(sq, c, d) ==
    RatGt(sq.n * Pow10(IF sq.e > 0 THEN sq.e ELSE 0),
          sq.d * Pow10(IF sq.e < 0 THEN 0 - sq.e ELSE 0), c, d)

\* the entry is a number greater than 0.9999
CoefAbove9999(c) ==
    c.k = "finite" /\ c.sign = 1 /\ SquareAbove(c.sq, 99980001, 100000000)

\* the number in column i of row r of the rows fed, None if it holds none
FedNumber(r, i) == CorrelationParse(cor_rows[r][i])

ExactProduct(x, y) == FpExact(x.n * y.n, x.d * y.d, x.e + y.e)

\* every cell is a number, a is not constant, and b = c * a for one c > 0
Proportional ==
    /\ \A r \in 1..Len(cor_rows) : IsSome(FedNumber(r, 1)) /\ IsSome(FedNumber(r, 2))
    /\ \E r, q \in 1..Len(cor_rows) : FedNumber(r, 1) # FedNumber(q, 1)
    /\ \A r \in 1..Len(cor_rows) :
         FpSign(FedNumber(r, 1)[1]) = FpSign(FedNumber(r, 2)[1])
    /\ \A r, q \in 1..Len(cor_rows) :
         ExactProduct(FedNumber(r, 1)[1], FedNumber(q, 2)[1])
           = ExactProduct(FedNumber(q, 1)[1], FedNumber(r, 2)[1])

\* C18: for at least two rows over the columns a and b in which every cell
\* is a valid number, a is not constant and b = c * a for a constant
\* c > 0, update_batch followed by finalize reports a coefficient of a and
\* b greater than 0.9999.
C18_ProportionalColumns ==
    (cor_pc = "finalized" /\ Len(cor_rows) >= 2 /\ Proportional)
        => CoefAbove9999(cor_res[1].matrix[1][2])

\* x == y on f64: no NaN is equal to anything
CoefEq(x, y) == x.k = "finite" /\ y.k = "finite" /\ x = y

\* -1.0 <= x <= 1.0
CoefInUnitRange(x) == x.k = "finite" /\ ~SquareAbove(x.sq, 1, 1)

\* C19: for any sequence of rows, missing and non-numeric cells included,
\* the matrix finalize returns is symmetric, has exactly 1.0 on the
\* diagonal, and every entry of it lies in [-1, 1].
C19_MatrixShape ==
    cor_pc = "finalized" =>
        \A i, j \in 1..Len(CorrelationColumns) :
            /\ CoefEq(cor_res[1].matrix[i][j], cor_res[1].matrix[j][i])
            /\ i = j => cor_res[1].matrix[i][j] = CoefOne(1)
            /\ CoefInUnitRange(cor_res[1].matrix[i][j])

-----------------------------------------------------------------------------
(* Uniqueness *)

\* C20: the uniqueness of a column is distinct_estimate / (count - missing),
\* is 1.0 when count - missing = 0, and never exceeds 1.0 whatever the
\* distinct_estimate, an estimate above count - missing included.
C20_UniquenessClamped ==
    IsSome(uni_out) =>
        /\ uni_in[1] - uni_in[2] = 0 => uni_out[1] = FpFromInt(1)
        /\ uni_in[1] - uni_in[2] > 0
             => uni_out[1] = FpExact(uni_in[3], uni_in[1] - uni_in[2], 0)
        /\ ~FpPositive(FpSub(uni_out[1], FpFromInt(1)))

-----------------------------------------------------------------------------
(* Personal data *)

HasIssue(p, suffix, severity) ==
    \E k \in 1..Len(p.quality_metrics[1].issues) :
        /\ p.quality_metrics[1].issues[k].id = <<p.name, suffix>>
        /\ p.quality_metrics[1].issues[k].severity = severity

\* C21: a finalized column whose sampled cells match no content pattern
\* but whose name hints at e-mail addresses (email_address) has the e-mail
\* issue, of warning severity, among its quality issues.
C21_NameFallback ==
    ( /\ pii_pc = "finalized"
      /\ pii.pii_samples # <<>>
      /\ detect_pii_pattern(pii.pii_samples) = None
      /\ detect_pii_from_column_name(pii.name) = Some("Email") )
        => HasIssue(pii, "_pii_email", "Warning")

\* max(1, ceil(0.3 * n))
CeilThreshold(n) ==
    IF (3 * n + 9) \div 10 > 1 THEN (3 * n + 9) \div 10 ELSE 1

\* C30: over the n sampled cells of a finalized column, the e-mail pattern
\* is reported only when at least max(1, ceil(0.3 * n)) of them match it.
C30_TriggerThreshold ==
    ( /\ pii_pc = "finalized"
      /\ HasIssue(pii, "_pii_email", "Warning") )
        => MatchCount(pii.pii_samples, IsEmail) >= CeilThreshold(Len(pii.pii_samples))

-----------------------------------------------------------------------------
(* Delimiter detection *)

\* all of the up to 10 records read with the candidate have the same field
\* count, and that count is above 1
SameFieldCount(records) ==
    /\ records # <<>>
    /\ Len(records[1]) > 1
    /\ \A k \in 1..Len(records) : Len(records[k]) = Len(records[1])

CandidateSet == {DelimiterCandidates[k] : k \in 1..Len(DelimiterCandidates)}

\* the candidates at the highest score
HighestScoring(data) ==
    {delim \in CandidateSet :
        \A other \in CandidateSet :
            CandidateScore(data, other) <= CandidateScore(data, delim)}

\* C22: in auto_detect_delimiter a candidate among , tab ; | gets a score,
\* record count * field count of the first record, only when all of the up
\* to 10 records read with it have the same field count above 1; the one
\* candidate with the highest score is returned, and with several
\* candidates at the highest score, or none scoring, the comma is.
C22_DelimiterScore ==
    IsSome(det_out) =>
        /\ \A delim \in CandidateSet :
               CandidateScore(det_in, delim) > 0 =>
                   /\ SameFieldCount(Take(CsvRecords(det_in, delim), DetectSampleRecords))
                   /\ CandidateScore(det_in, delim) =
                          Len(Take(CsvRecords(det_in, delim), DetectSampleRecords))
                              * Len(CsvRecords(det_in, delim)[1])
        /\ det_out[1] = IF Cardinality(HighestScoring(det_in)) = 1
                        THEN CHOOSE delim \in HighestScoring(det_in) : TRUE
                        ELSE ","

-----------------------------------------------------------------------------
(* Order of the cells *)

\* the sequences that hold the cells of s in another order
Reordered(s) ==
    {[i \in 1..Len(s) |-> s[f[i]]] : f \in Permutations(1..Len(s))}

\* the column of long_base fed the cells behind the first batch
LongFed(base, cells) ==
    FeedCells(base,
              [i \in (FillRows + 1)..(FillRows + Len(cells)) |-> cells[i - FillRows]],
              FillRows + Len(cells))

\* the count of the first entry of top_values, 0 without entries
GreatestCount(counts) ==
    IF DOMAIN counts = {} THEN 0
    ELSE CHOOSE c \in {counts[v] : v \in DOMAIN counts} :
             \A v \in DOMAIN counts : counts[v] <= c

\* what finalize reports of a column whatever the iteration order of the
\* counts map
OrderFreeReport(p) ==
    [count |-> p.count, missing |-> p.missing, numeric_stats |-> p.numeric_stats,
     inferred_type |-> InferredType(p),
     unique_count |-> Cardinality(DOMAIN p.cat_acc.counts),
     top_count |-> GreatestCount(p.cat_acc.counts)]

\* C23: a column fed the same cells in any other order reports the same
\* count, missing, numeric count, sum, min and max, inferred type, unique
\* count and top values, also when the cells hold more distinct values
\* than the categorical accumulator keeps.
C23_OrderInvariant ==
    long_pc = "open" =>
        \A cells \in Reordered(long_cells) :
            OrderFreeReport(LongFed(long_base, cells)) = OrderFreeReport(long)

-----------------------------------------------------------------------------
(* Missing cells *)

\* the fields of a column that a missing cell may change
MissingCellFields == {"count", "missing", "missing_rows"}

\* C29: update on a missing cell adds one to count and to missing, appends
\* the row index to missing_rows while that list has fewer than 1000
\* entries, and leaves every other field of the column as it was: the
\* sketch, the categorical accumulator, the length extremes, the samples,
\* the PII samples and rows, the type counters and the numeric state.
C29_MissingCellUpdate ==
    [][ ( /\ long_pc = "open"
          /\ Len(long_cells') = Len(long_cells) + 1
          /\ MissingCell(long_cells'[Len(long_cells')]) )
        => /\ long'.count = long.count + 1
           /\ long'.missing = long.missing + 1
           /\ long'.missing_rows =
                  IF Len(long.missing_rows) < 1000
                  THEN Append(long.missing_rows, FillRows + Len(long_cells'))
                  ELSE long.missing_rows
           /\ \A f \in (DOMAIN long) \ MissingCellFields : long'[f] = long[f] ]_vars

C29_Witness ==
    /\ long_fill = "missing"
    /\ long_cells # <<>>
    /\ MissingCell(long_cells[Len(long_cells)])
    /\ long.missing > Len(long.missing_rows)
    /\ long.total_valid > 0

-----------------------------------------------------------------------------
(* Row accounting of the delimited-text parser *)

\* C28: after any sequence of CsvParser parse_chunk and flush calls,
\* total_rows is the number of data rows emitted so far plus
\* malformed_count, in the parser and in the result of the last call; the
\* header record is counted in neither.
C28_TotalRows ==
    csv_pc # "idle" =>
        /\ csv.total_rows = Len(csv_out) + csv.malformed_count
        /\ csv_res.total_rows = Len(csv_out) + csv_res.malformed_count

C28_Witness ==
    /\ csv_pc = "flushed"
    /\ csv.has_headers
    /\ csv_res.headers # <<>>
    /\ csv_res.malformed_count > 0
    /\ csv_out # <<>>

-----------------------------------------------------------------------------
(* Key cap *)

\* C24: the headers of a JSON session stop growing at the key cap
\* (max_keys_per_object): once their number has reached the cap no item,
\* object, array or primitive, adds a header, so the parser and its results
\* never hold more headers than the cap.
C24_KeyCap ==
    js_pc # "idle" =>
        /\ Len(js.headers) <= js.config.max_keys_per_object
        /\ Len(js_res.headers) <= js.config.max_keys_per_object

-----------------------------------------------------------------------------
(* Bytes that cannot be interpreted yet *)

\* the buffered bytes of the session have not been interpreted: the format
\* is not detected, or the array has not started
NotInterpreted ==
    \/ js.format = "Unknown"
    \/ js.format = "JsonArray" /\ ~js.in_array /\ ~js_closed

IsObjectText(text) == SerdeFromStr(text).ok /\ SerdeFromStr(text).val.t = "obj"

\* C25: while the bytes of a JSON session cannot be interpreted (format not
\* detected, or no [ found) its calls return no rows and leave the counters
\* as they were, and the session keeps accepting chunks: once a valid
\* record has arrived in a later chunk, rows are emitted.  The second part
\* is stated for the line-delimited streams of an undeclared format that
\* hold an object behind their first line.
C25_IdleUntilValid ==
    /\ (js_pc = "open" /\ NotInterpreted) =>
           /\ js_res.rows = <<>> /\ js_out = <<>>
           /\ js_res.total_rows = 0 /\ js_res.malformed_count = 0
    /\ ( /\ js_pc = "flushed"
         /\ js_src.framing = "lines" /\ ~js_src.declared
         /\ \E k \in 2..Len(js_src.records) : IsObjectText(js_src.records[k]) )
           => js_out # <<>>

-----------------------------------------------------------------------------
(* Width of the rows *)

\* every row of the result has one cell per header of the result
RowsMatchHeaders(res) ==
    \A k \in 1..Len(res.rows) : Len(res.rows[k]) = Len(res.headers)

SameLength(rows) ==
    \A i, k \in 1..Len(rows) : Len(rows[i]) = Len(rows[k])

\* C27: every row a parser emits has exactly one cell per header: the rows
\* of a result are as long as the headers list returned with them, and all
\* rows emitted in a session have the same length.  Stated for the
\* delimited-text sessions that have read their header record, and for the
\* JSON sessions.
C27_OneCellPerHeader ==
    /\ (csv_pc # "idle" /\ csv.has_headers /\ csv.header_set) =>
           RowsMatchHeaders(csv_res) /\ SameLength(csv_out)
    /\ js_pc # "idle" =>
           RowsMatchHeaders(js_res) /\ SameLength(js_out)

-----------------------------------------------------------------------------
(* Record errors of the block-encoded sources *)

ErrorCount(results) == Cardinality({k \in 1..Len(results) : ~results[k].ok})

\* C26: for the Parquet and Avro sources an error on a single record does
\* not abort the session: when one record of the file fails and others are
\* read, a report is produced and it covers the records that were read.
C26_RecordErrorTolerated ==
    ( /\ IsSome(blk_out)
      /\ ErrorCount(blk_in.results) = 1
      /\ Len(blk_in.results) > 1 )
        => /\ blk_out[1].ok
           /\ IsSome(blk_out[1].stats)
           /\ blk_out[1].stats[1].total_rows = Len(blk_in.results) - 1

-----------------------------------------------------------------------------
(* Priority of the personal-data types *)

PiiOrder ==
    <<"Ssn", "CreditCard", "Email", "Phone", "IpAddress", "DateOfBirth", "PostalCode">>

\* the number of cells of the sample that match the content pattern of a type
KindMatches(kind, sample) ==
    CASE kind = "Ssn" -> MatchCount(sample, IsSsn)
      [] kind = "CreditCard" -> MatchCount(sample, IsCreditCard)
      [] kind = "Email" -> MatchCount(sample, IsEmail)
      [] kind = "Phone" -> MatchCount(sample, IsPhone)
      [] kind = "IpAddress" -> MatchCount(sample, IsIpAddress)
      [] kind = "DateOfBirth" -> MatchCount(sample, IsDob)
      [] kind = "PostalCode" -> MatchCount(sample, IsPostal)

\* the type reaches its trigger threshold on the sample; a postal code
\* counts only under a column name that hints at one
Triggers(kind, sample, hint) ==
    /\ KindMatches(kind, sample) >=
          (IF kind = "DateOfBirth" THEN DobThreshold(PiiThreshold(Len(sample)), hint)
           ELSE PiiThreshold(Len(sample)))
    /\ kind = "PostalCode" => hint = Some("PostalCode")

TriggeredRanks(sample, hint) ==
    {i \in 1..Len(PiiOrder) : Triggers(PiiOrder[i], sample, hint)}

PatternHint == 
    IF IsSome(pd_in.column_name) THEN detect_pii_from_column_name(pd_in.column_name[1])
    ELSE None

\* C31: when several content types reach the trigger threshold on the same
\* samples the reported type is the first of them in the order SSN, credit
\* card, e-mail, telephone, IP address, date of birth, postal code; a postal
\* code is reported from content only under a hinting column name; the name
\* hint is returned only when no content type triggered.
C31_PiiPriority ==
    (IsSome(pd_out) /\ pd_in.values # <<>>) =>
        /\ \A i \in TriggeredRanks(pd_in.values, PatternHint) :
              (\A k \in TriggeredRanks(pd_in.values, PatternHint) : i <= k)
                  => pd_out[1] = Some(PiiOrder[i])
        /\ TriggeredRanks(pd_in.values, PatternHint) = {} => pd_out[1] = PatternHint

\* two content types triggered on the same samples and the call returned
C31_Witness ==
    /\ IsSome(pd_out)
    /\ Cardinality(TriggeredRanks(pd_in.values, PatternHint)) >= 2
    /\ pd_out[1] = Some("CreditCard")

-----------------------------------------------------------------------------
(* Co-moments *)

\* the number in column i of a row
RowNumber(row, i) == CorrelationParse(row[i])

\* every cell of every row received is a number, and no product of two of
\* them overflows
AllNumbers ==
    \A k \in 1..Len(cor_rows) : \A i, j \in 1..Len(CorrelationColumns) :
        /\ IsSome(RowNumber(cor_rows[k], i))
        /\ IsSome(RowNumber(cor_rows[k], j))
        /\ FpIsFinite(FpMul(RowNumber(cor_rows[k], i)[1], RowNumber(cor_rows[k], j)[1]))

\* the sum over the rows of (x - mean_i)(y - mean_j)
RECURSIVE DeviationProducts(_, _, _, _, _)
DeviationProducts(rows, i, j, mean_i, mean_j) ==
    IF rows = <<>> THEN FpZero
    ELSE FpAdd(FpMul(FpSub(RowNumber(Head(rows), i)[1], mean_i),
                     FpSub(RowNumber(Head(rows), j)[1], mean_j)),
               DeviationProducts(Tail(rows), i, j, mean_i, mean_j))

CoMoment(i, j) == cor.co_moments[(i - 1) * Len(cor.columns) + j]

\* C32: after rows in which every numeric column holds a valid number the
\* co-moment of each pair (i, j) is the sum over the rows of
\* (x - mean_i)(y - mean_j) taken with the final means, and the co-moment
\* of a column with itself is its M2.
C32_CoMomentSum ==
    (cor_pc = "open" /\ cor_rows # <<>> /\ AllNumbers) =>
        \A i, j \in 1..Len(cor.columns) :
            /\ CoMoment(i, j) =
                  DeviationProducts(cor_rows, i, j, cor.means[i], cor.means[j])
            /\ CoMoment(i, i) = cor.m2s[i]

-----------------------------------------------------------------------------
(* Reservoir replacement *)

\* the numbers 1..n in order
Counting(n) == [i \in 1..n |-> i]

\* C33: the first 1000 values fill the reservoir in order; for the k-th
\* value with k > 1000 the index is j = (k * 1103515245 + 12345) mod k,
\* which is 12345 mod k, the element at j is replaced iff j < 1000 and
\* nothing else changes; so no value observed after the 12345th is ever in
\* the reservoir.
C33_ReservoirIndex ==
    [][ rsv'.count = rsv.count + 1 =>
          /\ rsv'.count <= 1000 => rsv'.samples = Counting(rsv'.count)
          /\ rsv'.count > 1000 =>
                rsv'.samples =
                    IF 12345 % rsv'.count < 1000
                    THEN [rsv.samples EXCEPT ![(12345 % rsv'.count) + 1] = rsv'.count]
                    ELSE rsv.samples
          /\ \A i \in 1..Len(rsv'.samples) : rsv'.samples[i] <= 12345 ]_vars

-----------------------------------------------------------------------------
(* Nested objects *)

\* the dotted paths of an object under a depth cap, each with its cell: an
\* object above the cap is expanded, anything else is one cell, an object
\* as its serialized text
RECURSIVE ExpandedCells(_, _, _, _, _)
ExpandedCells(kv, k, prefix, depth, cap) ==
    IF k > Len(kv) THEN {}
    ELSE (IF kv[k].v.t = "obj" /\ depth < cap
          THEN ExpandedCells(kv[k].v.kv, 1, FullKey(prefix, kv[k].k), depth + 1, cap)
          ELSE { <<FullKey(prefix, kv[k].k),
                   IF kv[k].v.t = "obj" THEN SerdeToString(kv[k].v) ELSE kv[k].v.s>> })
         \cup ExpandedCells(kv, k + 1, prefix, depth, cap)

\* what a record text holds when it is an object
RecordCells(text, cap) ==
    IF SerdeFromStr(text).ok /\ SerdeFromStr(text).val.t = "obj"
    THEN ExpandedCells(SerdeFromStr(text).val.kv, 1, <<>>, 0, cap)
    ELSE {}

\* the row has the cell under the header
HasCell(headers, row, path, cell) ==
    \E i \in 1..Len(row) : i <= Len(headers) /\ headers[i] = path /\ row[i] = cell

Segments(header) == Cardinality({i \in 1..Len(header) : header[i] = "."}) + 1

\* C34: under the depth cap D an object nested within the cap is expanded
\* into dotted sub-keys and a sub-object beyond the cap is one cell that
\* holds its serialized text under the deepest preserved key; no header has
\* more than D + 1 key segments.  The cells are stated for the sessions
\* whose key cap is out of reach.
C34_DepthCap ==
    /\ \A i \in 1..Len(fl.headers) :
          Segments(fl.headers[i]) <= fl.config.max_nested_depth + 1
    /\ fl.config.max_keys_per_object = 500 =>
          \A k \in 1..Len(fl_recs) :
             \A pc \in RecordCells(fl_recs[k], fl.config.max_nested_depth) :
                HasCell(fl.headers, fl_rows[k], pc[1], pc[2])

\* under the cap 1 the record {"a":{"b":{"c":1}}} gave the cell {"c":1}
\* under the header a.b
C34_Witness ==
    /\ fl.config.max_nested_depth = 1
    /\ fl_recs = << <<"{", "\"", "a", "\"", ":", "{", "\"", "b", "\"", ":", "{", "\"", "c", "\"", ":", "1", "}", "}", "}">> >>
    /\ fl.headers = << <<"a", ".", "b">> >>
    /\ fl_rows = << << <<"{", "\"", "c", "\"", ":", "1", "}">> >> >>

-----------------------------------------------------------------------------
(* Known paths behind the key cap *)

\* C35: once the key cap is reached only new paths are dropped: for every
\* later record the value of each path that was already a header, dotted
\* paths under a nested object included, is written to its cell of the row.
C35_KnownPathsKept ==
    [][ ( /\ fl_recs' # fl_recs
          /\ Len(fl.headers) >= fl.config.max_keys_per_object )
        => \A pc \in RecordCells(fl_recs'[Len(fl_recs')], fl.config.max_nested_depth) :
              IsHeader(fl, pc[1])
                 => HasCell(fl'.headers, fl_rows'[Len(fl_rows')], pc[1], pc[2]) ]_vars

-----------------------------------------------------------------------------
(* Columns of the report *)

\* the headers the parser of the session reported last: its whole list
SessionHeaders == IF csv_pc # "idle" THEN csv_res.headers ELSE js_res.headers

ReportNames(report) ==
    [i \in 1..Len(report.column_profiles) |-> report.column_profiles[i].name]

\* C36: at finalize of a JSON or delimited-text session the report holds
\* exactly one column profile for every header the parser reported during
\* the session, in header order, a header discovered after the first batch
\* included.
C36_AllHeadersProfiled ==
    (IsSome(ses_result) /\ ses_result[1].ok)
        => ReportNames(ses_result[1].report) = SessionHeaders

-----------------------------------------------------------------------------
(* Rows of the report *)

\* C37: if the parser of a DataCertProfiler session emitted at least one
\* data row, in a chunk or in the final flush, finalize returns a report
\* whose total_rows is the number of emitted rows, with and without a
\* header record.
C37_EmittedRowsReported ==
    (csv_pc = "flushed" /\ IsSome(ses_result) /\ csv_out # <<>>)
        => /\ ses_result[1].ok
           /\ ses_result[1].report.total_rows = Len(csv_out)

-----------------------------------------------------------------------------
(* Repeated finalize *)

\* C38: the accumulators are frozen by finalize: a second finalize with no
\* input in between returns the same report as the first, with the same
\* statistics, inferred types, notes and quality issues for every column.
C38_FinalizeTwice ==
    Len(rf_reports) = 2 => rf_reports[2] = rf_reports[1]

-----------------------------------------------------------------------------
(* Repeated flush *)

\* C39: flush is idempotent for both parsers: after a flush the carried
\* remainder is empty, and a flush that follows immediately returns no rows
\* and leaves the headers, malformed_count and total_rows as they were.
C39_FlushTwice ==
    [][ /\ (csv_pc = "flushed" /\ csv_pc' = "reflushed") =>
             /\ csv.remainder = <<>>
             /\ csv'.remainder = <<>>
             /\ csv_res'.rows = <<>>
             /\ csv_res'.headers = csv_res.headers
             /\ csv_res'.malformed_count = csv_res.malformed_count
             /\ csv_res'.total_rows = csv_res.total_rows
        /\ (js_pc = "flushed" /\ js_pc' = "reflushed") =>
             /\ js.remainder = <<>>
             /\ js'.remainder = <<>>
             /\ js_res'.rows = <<>>
             /\ js_res'.headers = js_res.headers
             /\ js_res'.malformed_count = js_res.malformed_count
             /\ js_res'.total_rows = js_res.total_rows ]_vars

C39_Witness ==
    /\ csv_pc = "reflushed"
    /\ csv_fed = Len(csv_input)
    /\ csv_input # <<>>
    /\ csv_input[Len(csv_input)] # "\n"
    /\ csv_out # <<>>
    /\ csv_res.total_rows > 0

-----------------------------------------------------------------------------
(* The quality block of the exported report *)

\* C40: the completeness and the uniqueness written to the exported report
\* are, rounded to 6 decimals, the completeness and the uniqueness of the
\* column's quality metrics, also for a column with count = 0 and for a
\* column without a non-missing cell.
C40_ExportQuality ==
    IsSome(ex_out) =>
        /\ ex_out[1].quality.completeness =
               round_to_precision(ex_col.quality_metrics[1].completeness, 6)
        /\ ex_out[1].quality.uniqueness =
               round_to_precision(ex_col.quality_metrics[1].uniqueness, 6)

====
